---- MODULE Spec2Model ----
(***************************************************************************)
(* MockChain core: the checkpoint / timeline state engine                  *)
(* (packages/core/src/store.ts).  The zustand store holds one immutable    *)
(* MockChainState value; every operation reads it with getState() and      *)
(* installs a new value with setState(), so an operation is one atomic     *)
(* step.  JavaScript Maps are modelled as sequences of <<key, value>>      *)
(* entries in insertion order (what Array.from(map.entries()) yields).     *)
(***************************************************************************)
EXTENDS Integers, Sequences, FiniteSets, TLC

\* ---------------------------------------------------------------- bounds
MaxIds == 3
MaxCaptures == 1
MaxImportIds == 1

\* ------------------------------------------------------------- constants
MAIN_TIMELINE_ID == "main"
EXPORT_VERSION == "1.0"

\* JavaScript null / undefined, and "no error thrown"
Null == "null"
Undefined == "undefined"
None == "none"

\* Error classes thrown by the store
NotFound == "NotFound"
ProtectedResource == "ProtectedResource"
ValidationError == "ValidationError"

\* ------------------------------------------------------------ input sets
\* Captured request/response pairs handed to capture()
Pair1 == [id |-> "r1", method |-> "GET", url |-> "/a", status |-> 200]

\* CheckpointOptions values
CheckpointOptionsSet ==
  { [name |-> "a", description |-> Undefined] }

\* names given to createBranch
BranchNames == {"a"}

\* identifiers generateId() hands out, in order
GenIds == <<"g1", "g2", "g3", "g4", "g5", "g6">>

VARIABLES
  currentTimelineId,  \* MockChainState.currentTimelineId
  timelines,          \* MockChainState.timelines   (Map as entry sequence)
  checkpoints,        \* MockChainState.checkpoints (Map as entry sequence)
  currentCaptures,    \* MockChainState.currentCaptures
  nextId,             \* number of identifiers generateId() has produced, + 1
  last,               \* the last call: operation, arguments, outcome, pre-state
  persist,            \* the persist middleware and the storage backend of the store
  instances,          \* the other store instances and the singleton slots
  wrapper             \* the MSW wrapper: its options, maps and pending work

vars == <<currentTimelineId, timelines, checkpoints, currentCaptures, nextId, last,
          persist, instances, wrapper>>

\* ------------------------------------------------------- Map operations
\* Map.prototype.has
Has(m, k) == \E i \in DOMAIN m : m[i][1] = k

\* Map.prototype.get (only used where Has(m, k))
Get(m, k) == m[CHOOSE i \in DOMAIN m : m[i][1] = k][2]

\* Map.prototype.set: overwrite in place, or append a new entry
MapSet(m, k, v) ==
  IF Has(m, k)
    THEN [i \in DOMAIN m |-> IF m[i][1] = k THEN <<k, v>> ELSE m[i]]
    ELSE Append(m, <<k, v>>)

\* Map.prototype.delete
MapDelete(m, k) == SelectSeq(m, LAMBDA e : e[1] # k)

\* Array.from(map.keys()) as a set
Keys(m) == {m[i][1] : i \in DOMAIN m}

\* ------------------------------------------------------------ utilities
\* generateId(): a fresh opaque identifier
GenerateId == GenIds[nextId]

\* Date.now(): a logical clock that ticks with every generated identifier
Now == nextId

\* JavaScript truthiness of an optional string
Truthy(s) == s # Undefined /\ s # Null /\ s # ""

\* createInitialState(): the main timeline
MainTimeline ==
  [id |-> MAIN_TIMELINE_ID, name |-> "Main", parentId |-> Null,
   branchedFromCheckpointId |-> Null, createdAt |-> 0]

\* createInitialState()
createInitialState ==
  [currentTimelineId |-> MAIN_TIMELINE_ID,
   timelines |-> << <<MAIN_TIMELINE_ID, MainTimeline>> >>,
   checkpoints |-> << >>,
   currentCaptures |-> << >>]

\* the state value returned by store.getState()
getState ==
  [currentTimelineId |-> currentTimelineId,
   timelines |-> timelines,
   checkpoints |-> checkpoints,
   currentCaptures |-> currentCaptures]

\* ------------------------------------------------------ storage adapter
\* Array.from(map.entries()): the [key, value] tuples in insertion order
Entries(map) == [i \in 1..Len(map) |-> <<map[i][1], map[i][2]>>]

\* new Map(tuples): each tuple set in turn, a repeated key keeps its first place
RECURSIVE NewMap(_, _)
NewMap(map, tuples) ==
  IF tuples = << >>
    THEN map
    ELSE NewMap(MapSet(map, Head(tuples)[1], Head(tuples)[2]), Tail(tuples))

serializeState(state) ==
  [currentTimelineId |-> state.currentTimelineId,
   timelines |-> Entries(state.timelines),
   checkpoints |-> Entries(state.checkpoints),
   currentCaptures |-> state.currentCaptures]

\* the maps rebuilt from the tuples taken newest first
deserializeState_newestFirst(serialized) ==
  [currentTimelineId |-> serialized.currentTimelineId,
   timelines |->
     NewMap(<< >>, [i \in DOMAIN serialized.timelines |->
                      serialized.timelines[Len(serialized.timelines) + 1 - i]]),
   checkpoints |->
     NewMap(<< >>, [i \in DOMAIN serialized.checkpoints |->
                      serialized.checkpoints[Len(serialized.checkpoints) + 1 - i]]),
   currentCaptures |-> serialized.currentCaptures]

deserializeState(serialized) ==
  [currentTimelineId |-> serialized.currentTimelineId,
   timelines |-> NewMap(<< >>, serialized.timelines),
   checkpoints |-> NewMap(<< >>, serialized.checkpoints),
   currentCaptures |-> serialized.currentCaptures]

\* a store built by createMockChainStore: no middleware, no backend
NoPersistence == [on |-> FALSE]

\* the model of one store: no other instance, no singleton slot
NoInstances == [on |-> FALSE]

\* no MSW server or worker has been wrapped
NoWrapper == [on |-> FALSE]

\* a store built by createPersistentMockChainStore on a backend that holds
\* entry under the storage key: hydrated is false and persist has started
\* its one read of the backend. lastWrite is the state of the latest setItem
\* call, first the state the store built before this one on the same backend
\* last wrote, cleared tells that clearPersistedState has resolved and no
\* state was set since, raced that a state change was made while the latest
\* clearPersistedState was awaiting the removal, failed that a backend write
\* or removal has failed, held is the entry at construction, early tells
\* that the backend completed a write or a removal of this store before it
\* served the read of the hydration
PersistentStore(entry, readFails) ==
  [on |-> TRUE, entry |-> entry, readFails |-> readFails,
   loads |-> 1, loaded |-> << >>, hydrated |-> FALSE, resolved |-> FALSE,
   dirty |-> FALSE, writes |-> << >>, clearing |-> FALSE, cleared |-> FALSE,
   raced |-> FALSE, failed |-> FALSE, lastWrite |-> << >>, first |-> << >>,
   held |-> entry, early |-> FALSE]

\* store.setState of a store with the persist middleware: after the update
\* the storage setItem is called with the new state, which puts a backend
\* write in flight; dirty records that the state was set after hydration
setState_setItem ==
  /\ persist' = IF persist.on
                  THEN [persist EXCEPT !.writes = Append(@, serializeState(getState')),
                                       !.dirty = @ \/ persist.hydrated,
                                       !.cleared = FALSE,
                                       !.raced = @ \/ persist.clearing,
                                       !.lastWrite = <<serializeState(getState')>>]
                  ELSE persist

\* a state change made by a call on the store: it leaves the other stores
\* and the wrapper as they are
setItem ==
  /\ setState_setItem
  /\ UNCHANGED <<instances, wrapper>>

\* record of a call: what was called with which arguments and how it ended
\* (ret is the value returned, or the identifier the error message quotes)
Call(op, id, err, ret) ==
  [op |-> op, id |-> id, name |-> Undefined, pair |-> << >>, doc |-> 0,
   strategy |-> Undefined, query |-> << >>, found |-> << >>,
   exported |-> << >>, err |-> err, ret |-> ret, pre |-> getState]

NoCall ==
  [op |-> "init", id |-> Undefined, name |-> Undefined, pair |-> << >>,
   doc |-> 0, strategy |-> Undefined, query |-> << >>, found |-> << >>,
   exported |-> << >>, err |-> None, ret |-> Undefined, pre |-> createInitialState]

Init ==
  /\ currentTimelineId = createInitialState.currentTimelineId
  /\ timelines = createInitialState.timelines
  /\ checkpoints = createInitialState.checkpoints
  /\ currentCaptures = createInitialState.currentCaptures
  /\ nextId = 1
  /\ last = NoCall
  /\ persist = NoPersistence
  /\ instances = NoInstances
  /\ wrapper = NoWrapper

\* --------------------------------------------------------- store actions
\* push onto an array the checkpoints of this buffer still reference
capture_shared(pair) ==
  /\ currentCaptures' = Append(currentCaptures, pair)
  /\ checkpoints' =
       [i \in DOMAIN checkpoints |->
          IF checkpoints[i][2].captures = currentCaptures
            THEN <<checkpoints[i][1],
                   [checkpoints[i][2] EXCEPT !.captures = Append(currentCaptures, pair)]>>
            ELSE checkpoints[i]]
  /\ last' = [Call("capture", Undefined, None, Undefined) EXCEPT !.pair = <<pair>>]
  /\ UNCHANGED <<currentTimelineId, timelines, nextId>>
  /\ setItem

\* push the pair onto the front of the buffer
capture_prepend(pair) ==
  /\ currentCaptures' = <<pair>> \o currentCaptures
  /\ last' = [Call("capture", Undefined, None, Undefined) EXCEPT !.pair = <<pair>>]
  /\ UNCHANGED <<currentTimelineId, timelines, checkpoints, nextId>>
  /\ setItem

\* the state change of capture: the pair is pushed onto a copy of the buffer
captureState(pair) ==
  /\ currentCaptures' = Append(currentCaptures, pair)
  /\ last' = [Call("capture", Undefined, None, Undefined) EXCEPT !.pair = <<pair>>]
  /\ UNCHANGED <<currentTimelineId, timelines, checkpoints, nextId>>

capture(pair) ==
  /\ captureState(pair)
  /\ setItem

clearCaptures ==
  /\ currentCaptures' = << >>
  /\ last' = Call("clearCaptures", Undefined, None, Undefined)
  /\ UNCHANGED <<currentTimelineId, timelines, checkpoints, nextId>>
  /\ setItem

\* snapshot the buffer and start an empty one
createCheckpoint_flush(options) ==
  /\ LET checkpoint ==
           [id |-> GenerateId,
            name |-> options.name,
            timelineId |-> currentTimelineId,
            captures |-> currentCaptures,
            createdAt |-> Now,
            description |-> options.description]
     IN /\ checkpoints' = MapSet(checkpoints, checkpoint.id, checkpoint)
        /\ last' = [Call("createCheckpoint", Undefined, None, checkpoint.id)
                      EXCEPT !.name = options.name]
  /\ currentCaptures' = << >>
  /\ nextId' = nextId + 1
  /\ UNCHANGED <<currentTimelineId, timelines>>
  /\ setItem

createCheckpoint(options) ==
  /\ LET checkpoint ==
           [id |-> GenerateId,
            name |-> options.name,
            timelineId |-> currentTimelineId,
            captures |-> currentCaptures,
            createdAt |-> Now,
            description |-> options.description]
     IN /\ checkpoints' = MapSet(checkpoints, checkpoint.id, checkpoint)
        /\ last' = [Call("createCheckpoint", Undefined, None, checkpoint.id)
                      EXCEPT !.name = options.name]
  /\ nextId' = nextId + 1
  /\ UNCHANGED <<currentTimelineId, timelines, currentCaptures>>
  /\ setItem

\* restore the captures but stay on the current timeline
restoreCheckpoint_stay(checkpointId) ==
  IF ~Has(checkpoints, checkpointId)
    THEN /\ last' = Call("restoreCheckpoint", checkpointId, NotFound, checkpointId)
         /\ UNCHANGED <<currentTimelineId, timelines, checkpoints, currentCaptures, nextId,
                        persist, instances, wrapper>>
    ELSE /\ currentCaptures' = Get(checkpoints, checkpointId).captures
         /\ last' = Call("restoreCheckpoint", checkpointId, None, Undefined)
         /\ UNCHANGED <<currentTimelineId, timelines, checkpoints, nextId>>
         /\ setItem

restoreCheckpoint(checkpointId) ==
  IF ~Has(checkpoints, checkpointId)
    THEN /\ last' = Call("restoreCheckpoint", checkpointId, NotFound, checkpointId)
         /\ UNCHANGED <<currentTimelineId, timelines, checkpoints, currentCaptures, nextId,
                        persist, instances, wrapper>>
    ELSE LET checkpoint == Get(checkpoints, checkpointId)
         IN /\ currentTimelineId' = checkpoint.timelineId
            /\ currentCaptures' = checkpoint.captures
            /\ last' = Call("restoreCheckpoint", checkpointId, None, Undefined)
            /\ UNCHANGED <<timelines, checkpoints, nextId>>
            /\ setItem

\* a delete that raises not-found when the checkpoint is absent
deleteCheckpoint_strict(checkpointId) ==
  IF ~Has(checkpoints, checkpointId)
    THEN /\ last' = Call("deleteCheckpoint", checkpointId, NotFound, checkpointId)
         /\ UNCHANGED <<currentTimelineId, timelines, checkpoints, currentCaptures, nextId,
                        persist, instances, wrapper>>
    ELSE /\ checkpoints' = MapDelete(checkpoints, checkpointId)
         /\ last' = Call("deleteCheckpoint", checkpointId, None, Undefined)
         /\ UNCHANGED <<currentTimelineId, timelines, currentCaptures, nextId>>
         /\ setItem

deleteCheckpoint(checkpointId) ==
  /\ checkpoints' = MapDelete(checkpoints, checkpointId)
  /\ last' = Call("deleteCheckpoint", checkpointId, None, Undefined)
  /\ UNCHANGED <<currentTimelineId, timelines, currentCaptures, nextId>>
  /\ setItem

\* createBranch: a branch from the live state starts with an empty buffer
branchCaptures_empty(options) ==
  IF Truthy(options.fromCheckpointId)
    THEN Get(checkpoints, options.fromCheckpointId).captures
    ELSE << >>

\* createBranch: the captures the new timeline starts with
branchCaptures(options) ==
  IF Truthy(options.fromCheckpointId)
    THEN Get(checkpoints, options.fromCheckpointId).captures
    ELSE currentCaptures

\* createBranch: the parent is the timeline of the checkpoint branched from
branchTimeline_checkpointParent(options) ==
  [id |-> GenerateId,
   name |-> options.name,
   parentId |->
     IF Truthy(options.fromCheckpointId)
       THEN Get(checkpoints, options.fromCheckpointId).timelineId
       ELSE currentTimelineId,
   branchedFromCheckpointId |->
     IF options.fromCheckpointId = Undefined THEN Null ELSE options.fromCheckpointId,
   createdAt |-> Now]

\* createBranch: the Timeline object created
branchTimeline(options) ==
  [id |-> GenerateId,
   name |-> options.name,
   parentId |-> currentTimelineId,
   branchedFromCheckpointId |->
     IF options.fromCheckpointId = Undefined THEN Null ELSE options.fromCheckpointId,
   createdAt |-> Now]

createBranch(options) ==
  IF Truthy(options.fromCheckpointId) /\ ~Has(checkpoints, options.fromCheckpointId)
    THEN /\ last' = [Call("createBranch", options.fromCheckpointId, NotFound,
                            options.fromCheckpointId)
                       EXCEPT !.name = options.name]
         /\ UNCHANGED <<currentTimelineId, timelines, checkpoints, currentCaptures, nextId,
                        persist, instances, wrapper>>
    ELSE LET captures == branchCaptures(options)
             timeline == branchTimeline(options)
         IN /\ timelines' = MapSet(timelines, timeline.id, timeline)
            /\ currentTimelineId' = timeline.id
            /\ currentCaptures' = captures
            /\ last' = [Call("createBranch", options.fromCheckpointId, None, timeline.id)
                          EXCEPT !.name = options.name]
            /\ nextId' = nextId + 1
            /\ UNCHANGED checkpoints
            /\ setItem

\* switch, but keep the buffer when the timeline is already current
switchTimeline_keep(timelineId) ==
  IF ~Has(timelines, timelineId)
    THEN /\ last' = Call("switchTimeline", timelineId, NotFound, timelineId)
         /\ UNCHANGED <<currentTimelineId, timelines, checkpoints, currentCaptures, nextId,
                        persist, instances, wrapper>>
    ELSE /\ currentTimelineId' = timelineId
         /\ currentCaptures' =
              IF timelineId = currentTimelineId THEN currentCaptures ELSE << >>
         /\ last' = Call("switchTimeline", timelineId, None, Undefined)
         /\ UNCHANGED <<timelines, checkpoints, nextId>>
         /\ setItem

switchTimeline(timelineId) ==
  IF ~Has(timelines, timelineId)
    THEN /\ last' = Call("switchTimeline", timelineId, NotFound, timelineId)
         /\ UNCHANGED <<currentTimelineId, timelines, checkpoints, currentCaptures, nextId,
                        persist, instances, wrapper>>
    ELSE /\ currentTimelineId' = timelineId
         /\ currentCaptures' = << >>
         /\ last' = Call("switchTimeline", timelineId, None, Undefined)
         /\ UNCHANGED <<timelines, checkpoints, nextId>>
         /\ setItem

\* deleteTimeline: the cascade removes the checkpoints of the current timeline
cascadeCheckpoints_current(timelineId) ==
  SelectSeq(checkpoints, LAMBDA e : e[2].timelineId # currentTimelineId)

\* deleteTimeline: no cascade, the checkpoints map as it is
cascadeCheckpoints_none(timelineId) == checkpoints

\* deleteTimeline: the checkpoints map without the checkpoints of the timeline
cascadeCheckpoints(timelineId) ==
  SelectSeq(checkpoints, LAMBDA e : e[2].timelineId # timelineId)

\* deleteTimeline: every deletion sends the store back to main
newCurrentTimelineId_main(timelineId) == MAIN_TIMELINE_ID

\* deleteTimeline: the timeline that is current afterwards
newCurrentTimelineId(timelineId) ==
  IF currentTimelineId = timelineId THEN MAIN_TIMELINE_ID ELSE currentTimelineId

\* deleteTimeline: no timeline is protected
isProtected_none(timelineId) == FALSE

\* deleteTimeline: the main timeline is protected
isProtected(timelineId) == timelineId = MAIN_TIMELINE_ID

deleteTimeline(timelineId) ==
  IF isProtected(timelineId)
    THEN /\ last' = Call("deleteTimeline", timelineId, ProtectedResource, Undefined)
         /\ UNCHANGED <<currentTimelineId, timelines, checkpoints, currentCaptures, nextId,
                        persist, instances, wrapper>>
    ELSE IF ~Has(timelines, timelineId)
      THEN /\ last' = Call("deleteTimeline", timelineId, NotFound, timelineId)
           /\ UNCHANGED <<currentTimelineId, timelines, checkpoints, currentCaptures, nextId,
                          persist, instances, wrapper>>
      ELSE /\ timelines' = MapDelete(timelines, timelineId)
           /\ checkpoints' = cascadeCheckpoints(timelineId)
           /\ currentTimelineId' = newCurrentTimelineId(timelineId)
           /\ currentCaptures' =
                IF newCurrentTimelineId(timelineId) # currentTimelineId
                  THEN << >> ELSE currentCaptures
           /\ last' = Call("deleteTimeline", timelineId, None, Undefined)
           /\ UNCHANGED nextId
           /\ setItem

\* -------------------------------------------------------- export / import
\* An ExportData document as importState receives it.  versionType is the
\* JavaScript type of the version field; arrays names the collection fields
\* that are arrays; a field an entry lacks is Undefined.
ExportData(timelineList, checkpointList, captureList) ==
  [versionType |-> "string", version |-> EXPORT_VERSION,
   arrays |-> {"timelines", "checkpoints", "captures"},
   timelines |-> timelineList, checkpoints |-> checkpointList,
   captures |-> captureList]

\* validation that looks at the first entry of each list only
validateExportData_firstEntry(data) ==
  IF data.versionType # "string"
    THEN "missing or invalid version"
  ELSE IF "timelines" \notin data.arrays
    THEN "timelines must be an array"
  ELSE IF "checkpoints" \notin data.arrays
    THEN "checkpoints must be an array"
  ELSE IF "captures" \notin data.arrays
    THEN "captures must be an array"
  ELSE IF /\ data.timelines # << >>
          /\ data.timelines[1].id = Undefined \/ data.timelines[1].name = Undefined
    THEN "timeline missing required fields"
  ELSE IF /\ data.checkpoints # << >>
          /\ \/ data.checkpoints[1].id = Undefined
             \/ data.checkpoints[1].name = Undefined
             \/ data.checkpoints[1].timelineId = Undefined
    THEN "checkpoint missing required fields"
  ELSE None

\* validation of an import document: the first violation found, or None
validateExportData(data) ==
  IF data.versionType # "string"
    THEN "missing or invalid version"
  ELSE IF "timelines" \notin data.arrays
    THEN "timelines must be an array"
  ELSE IF "checkpoints" \notin data.arrays
    THEN "checkpoints must be an array"
  ELSE IF "captures" \notin data.arrays
    THEN "captures must be an array"
  ELSE IF \E i \in DOMAIN data.timelines :
            data.timelines[i].id = Undefined \/ data.timelines[i].name = Undefined
    THEN "timeline missing required fields"
  ELSE IF \E i \in DOMAIN data.checkpoints :
            \/ data.checkpoints[i].id = Undefined
            \/ data.checkpoints[i].name = Undefined
            \/ data.checkpoints[i].timelineId = Undefined
    THEN "checkpoint missing required fields"
  ELSE None

\* a Map filled by set(entry.id, entry) for each entry of a list, in order
RECURSIVE SetAll(_, _)
SetAll(m, list) ==
  IF list = << >> THEN m
  ELSE SetAll(MapSet(m, Head(list).id, Head(list)), Tail(list))

\* a Map to which each entry of a list is added unless its id is present
RECURSIVE AddMissing(_, _)
AddMissing(m, list) ==
  IF list = << >> THEN m
  ELSE AddMissing(IF Has(m, Head(list).id) THEN m
                  ELSE Append(m, <<Head(list).id, Head(list)>>),
                  Tail(list))

\* a replace that adds the imported checkpoints to the ones held
importReplace_keepCheckpoints(data) ==
  LET imported == SetAll(<< >>, data.timelines)
  IN [currentTimelineId |->
        IF Len(data.timelines) > 0 THEN data.timelines[1].id ELSE MAIN_TIMELINE_ID,
      timelines |->
        IF Has(imported, MAIN_TIMELINE_ID) THEN imported
        ELSE Append(imported,
                    <<MAIN_TIMELINE_ID, [MainTimeline EXCEPT !.createdAt = Now]>>),
      checkpoints |-> SetAll(checkpoints, data.checkpoints),
      currentCaptures |-> data.captures]

\* importState, strategy 'replace': the state installed
importReplace(data) ==
  LET imported == SetAll(<< >>, data.timelines)
  IN [currentTimelineId |->
        IF Len(data.timelines) > 0 THEN data.timelines[1].id ELSE MAIN_TIMELINE_ID,
      timelines |->
        IF Has(imported, MAIN_TIMELINE_ID) THEN imported
        ELSE Append(imported,
                    <<MAIN_TIMELINE_ID, [MainTimeline EXCEPT !.createdAt = Now]>>),
      checkpoints |-> SetAll(<< >>, data.checkpoints),
      currentCaptures |-> data.captures]

\* a merge that puts the imported captures before the live buffer
importMerge_capturesFirst(data) ==
  [currentTimelineId |-> currentTimelineId,
   timelines |-> AddMissing(timelines, data.timelines),
   checkpoints |-> AddMissing(checkpoints, data.checkpoints),
   currentCaptures |-> data.captures \o currentCaptures]

\* a merge in which the imported entry replaces the entry held
importMerge_overwrite(data) ==
  [currentTimelineId |-> currentTimelineId,
   timelines |-> SetAll(timelines, data.timelines),
   checkpoints |-> SetAll(checkpoints, data.checkpoints),
   currentCaptures |-> currentCaptures \o data.captures]

\* importState, strategy 'merge': the state installed
importMerge(data) ==
  [currentTimelineId |-> currentTimelineId,
   timelines |-> AddMissing(timelines, data.timelines),
   checkpoints |-> AddMissing(checkpoints, data.checkpoints),
   currentCaptures |-> currentCaptures \o data.captures]

\* importState(data, {strategy}); docNo names the document in the call record
importState(docNo, data, strategy) ==
  LET problem == validateExportData(data)
      call == [Call("importState", Undefined, None, Undefined)
                 EXCEPT !.doc = docNo, !.strategy = strategy]
  IN IF problem # None
       THEN /\ last' = [call EXCEPT !.err = ValidationError, !.ret = problem]
            /\ UNCHANGED <<currentTimelineId, timelines, checkpoints, currentCaptures, nextId,
                           persist, instances, wrapper>>
       ELSE LET new == IF strategy = "merge" THEN importMerge(data)
                       ELSE importReplace(data)
            IN /\ currentTimelineId' = new.currentTimelineId
               /\ timelines' = new.timelines
               /\ checkpoints' = new.checkpoints
               /\ currentCaptures' = new.currentCaptures
               /\ last' = call
               /\ UNCHANGED nextId
               /\ setItem

\* ---------------------------------------------------- imported documents
ForeignTimeline(id, parentId) ==
  [id |-> id, name |-> "b", parentId |-> parentId,
   branchedFromCheckpointId |-> Null, createdAt |-> 0]

ForeignCheckpoint(id, timelineId, captures) ==
  [id |-> id, name |-> "b", timelineId |-> timelineId, captures |-> captures,
   createdAt |-> 0, description |-> "d"]

\* a document from another store: a second root timeline and a checkpoint
\* whose timeline the document does not contain
DocForeign ==
  ExportData(<<ForeignTimeline("x1", Null)>>,
             <<ForeignCheckpoint("x2", "ghost", << >>)>>,
             <<Pair1>>)

\* the documents offered to importState
Docs ==
  << ExportData(<< >>, << >>, << >>),
     DocForeign,
     [DocForeign EXCEPT !.timelines[1].name = Undefined] >>

\* ------------------------------------------------------- specifications
CheckpointIds == Keys(checkpoints)
TimelineIds == Keys(timelines)

\* the store operations, with identifiers the store knows
StoreNext(maxIds) ==
  \/ Len(currentCaptures) < MaxCaptures /\ capture(Pair1)
  \/ clearCaptures
  \/ nextId <= maxIds /\ \E options \in CheckpointOptionsSet : createCheckpoint(options)
  \/ \E checkpointId \in CheckpointIds : restoreCheckpoint(checkpointId)
  \/ \E checkpointId \in CheckpointIds : deleteCheckpoint(checkpointId)
  \/ nextId <= maxIds /\
       \E n \in BranchNames, from \in CheckpointIds \cup {Undefined} :
         createBranch([name |-> n, fromCheckpointId |-> from])
  \/ \E timelineId \in TimelineIds : switchTimeline(timelineId)
  \/ \E timelineId \in TimelineIds : deleteTimeline(timelineId)

Next == StoreNext(MaxIds)

Spec == Init /\ [][Next]_vars

\* the store operations and importState
NextImport ==
  \/ StoreNext(MaxImportIds)
  \/ \E d \in DOMAIN Docs, strategy \in {"replace", "merge"} :
       /\ strategy = "merge" =>
            Len(currentCaptures) + Len(Docs[d].captures) <= MaxCaptures
       /\ importState(d, Docs[d], strategy)

SpecImport == Init /\ [][NextImport]_vars

\* ---------------------------------------------------------------- claims
\* the last call was op and raised no error
Ok(op) == last.op = op /\ last.err = None

\* the timeline entries whose timeline has no parent
Roots(m) == {i \in DOMAIN m : m[i][2].parentId = Null}

\* every entry of map m is an entry of map n, with the same value
Preserved(m, n) == \A i \in DOMAIN m : Has(n, m[i][1]) /\ Get(n, m[i][1]) = m[i][2]

\* C1: in every state reachable by the store operations and importState of a
\* validated document, currentTimelineId is a key of the timelines map.
C1_CurrentTimelineExists == Has(timelines, currentTimelineId)

\* C2: in every reachable state exactly one timeline has parentId null, and
\* the timeline that had it before a call still has it afterwards.
C2_ExactlyOneRoot ==
  /\ Cardinality(Roots(timelines)) = 1
  /\ \A i \in Roots(last.pre.timelines) :
       Has(timelines, last.pre.timelines[i][1])

\* C3: capture, clearCaptures, createCheckpoint, restoreCheckpoint,
\* createBranch and switchTimeline leave every existing checkpoint in place
\* with the captures, name and timelineId it had before the call.
C3_CheckpointsImmutable ==
  last.op \in {"capture", "clearCaptures", "createCheckpoint",
               "restoreCheckpoint", "createBranch", "switchTimeline"}
    => Preserved(last.pre.checkpoints, checkpoints)

\* C3 witness: a capture went into the buffer a checkpoint of the current
\* timeline had snapshotted, and the checkpoint still holds the old buffer.
C3_Witness ==
  /\ Ok("capture")
  /\ \E i \in DOMAIN checkpoints :
       /\ checkpoints[i][2].timelineId = currentTimelineId
       /\ checkpoints[i][2].captures = last.pre.currentCaptures
       /\ checkpoints[i][2].captures # currentCaptures

\* C4: restoreCheckpoint(k) of an existing checkpoint k succeeds, makes
\* k.timelineId current and the live buffer equal to k.captures, and leaves
\* the timelines and checkpoints maps unchanged.
C4_RestoreCheckpoint ==
  last.op = "restoreCheckpoint" /\ Has(last.pre.checkpoints, last.id)
    => /\ last.err = None
       /\ currentTimelineId = Get(last.pre.checkpoints, last.id).timelineId
       /\ currentCaptures = Get(last.pre.checkpoints, last.id).captures
       /\ timelines = last.pre.timelines
       /\ checkpoints = last.pre.checkpoints

\* C4 witness: a restore that moved the store to another timeline and
\* replaced a different buffer.
C4_Witness ==
  /\ Ok("restoreCheckpoint")
  /\ currentTimelineId # last.pre.currentTimelineId
  /\ currentCaptures # last.pre.currentCaptures

\* C5: createBranch without fromCheckpointId adds exactly one timeline, whose
\* parentId is the timeline current before the call and whose
\* branchedFromCheckpointId is null, makes it current and keeps the buffer.
C5_BranchFromLiveState ==
  last.op = "createBranch" /\ last.id = Undefined
    => /\ last.err = None
       /\ ~Has(last.pre.timelines, last.ret)
       /\ Has(timelines, last.ret)
       /\ timelines = Append(last.pre.timelines, <<last.ret, Get(timelines, last.ret)>>)
       /\ Get(timelines, last.ret).parentId = last.pre.currentTimelineId
       /\ Get(timelines, last.ret).branchedFromCheckpointId = Null
       /\ currentTimelineId = last.ret
       /\ currentCaptures = last.pre.currentCaptures

\* C5 witness: a branch taken off a non-main timeline with a non-empty buffer.
C5_Witness ==
  /\ Ok("createBranch")
  /\ last.id = Undefined
  /\ last.pre.currentTimelineId # MAIN_TIMELINE_ID
  /\ last.pre.currentCaptures # << >>

\* C6: createBranch({fromCheckpointId: k}) for an existing checkpoint k
\* creates a timeline whose buffer is k.captures, whose
\* branchedFromCheckpointId is k and whose parentId is the timeline current
\* before the call; the new timeline becomes current.
C6_BranchFromCheckpoint ==
  last.op = "createBranch" /\ Has(last.pre.checkpoints, last.id)
    => /\ last.err = None
       /\ ~Has(last.pre.timelines, last.ret)
       /\ Has(timelines, last.ret)
       /\ Get(timelines, last.ret).parentId = last.pre.currentTimelineId
       /\ Get(timelines, last.ret).branchedFromCheckpointId = last.id
       /\ currentTimelineId = last.ret
       /\ currentCaptures = Get(last.pre.checkpoints, last.id).captures

\* C6 witness: a branch from a checkpoint of another timeline than the
\* current one, whose captures differ from the buffer held before the call.
C6_Witness ==
  /\ Ok("createBranch")
  /\ Has(last.pre.checkpoints, last.id)
  /\ Get(last.pre.checkpoints, last.id).timelineId # last.pre.currentTimelineId
  /\ Get(last.pre.checkpoints, last.id).captures # last.pre.currentCaptures

\* C7: switchTimeline(id) with an existing id, the current one included,
\* succeeds, makes id current and empties the buffer; timelines and
\* checkpoints are unchanged.
C7_SwitchTimeline ==
  last.op = "switchTimeline" /\ Has(last.pre.timelines, last.id)
    => /\ last.err = None
       /\ currentTimelineId = last.id
       /\ currentCaptures = << >>
       /\ timelines = last.pre.timelines
       /\ checkpoints = last.pre.checkpoints

\* C7 witness: a switch to the timeline that was already current, with a
\* non-empty buffer.
C7_Witness ==
  /\ Ok("switchTimeline")
  /\ last.id = last.pre.currentTimelineId
  /\ last.pre.currentCaptures # << >>

\* C8: deleteTimeline(id) of an existing non-main timeline removes that
\* timeline and exactly the checkpoints whose timelineId is id; every other
\* timeline and checkpoint is still present and unchanged.
C8_DeleteTimelineCascade ==
  (/\ last.op = "deleteTimeline"
   /\ last.id # MAIN_TIMELINE_ID
   /\ Has(last.pre.timelines, last.id))
    => /\ last.err = None
       /\ Keys(timelines) = Keys(last.pre.timelines) \ {last.id}
       /\ Preserved(timelines, last.pre.timelines)
       /\ Keys(checkpoints) =
            {last.pre.checkpoints[i][1] : i \in
               {j \in DOMAIN last.pre.checkpoints :
                  last.pre.checkpoints[j][2].timelineId # last.id}}
       /\ Preserved(checkpoints, last.pre.checkpoints)

\* C8 witness: the deleted timeline had a checkpoint and another timeline
\* had one too.
C8_Witness ==
  /\ Ok("deleteTimeline")
  /\ \E i \in DOMAIN last.pre.checkpoints :
       last.pre.checkpoints[i][2].timelineId = last.id
  /\ \E i \in DOMAIN last.pre.checkpoints :
       last.pre.checkpoints[i][2].timelineId # last.id

\* C9: deleting the current timeline makes main current and empties the
\* buffer; deleting another timeline leaves currentTimelineId and the buffer
\* as they were.
C9_DeleteTimelineCurrent ==
  Ok("deleteTimeline")
    => IF last.pre.currentTimelineId = last.id
         THEN currentTimelineId = MAIN_TIMELINE_ID /\ currentCaptures = << >>
         ELSE /\ currentTimelineId = last.pre.currentTimelineId
              /\ currentCaptures = last.pre.currentCaptures

\* C9 witness: a timeline other than the current one was deleted while the
\* current, non-main timeline held captures.
C9_Witness ==
  /\ Ok("deleteTimeline")
  /\ last.pre.currentTimelineId # last.id
  /\ last.pre.currentTimelineId # MAIN_TIMELINE_ID
  /\ last.pre.currentCaptures # << >>

\* C10: the main timeline is present in every reachable state;
\* deleteTimeline('main') fails with the protected-resource error and changes
\* nothing; importState with strategy replace leaves a main timeline.
C10_MainAlwaysPresent ==
  /\ Has(timelines, MAIN_TIMELINE_ID)
  /\ last.op = "deleteTimeline" /\ last.id = MAIN_TIMELINE_ID
       => last.err = ProtectedResource /\ getState = last.pre

\* C10 witness: a replace import of a document without a main timeline.
C10_Witness ==
  /\ Ok("importState")
  /\ last.strategy = "replace"
  /\ Docs[last.doc].timelines # << >>
  /\ \A i \in DOMAIN Docs[last.doc].timelines :
       Docs[last.doc].timelines[i].id # MAIN_TIMELINE_ID

\* ------------------------------------------------- C11: failing calls
MaxErrIds == 2

\* identifiers that name no checkpoint / no timeline of the store
UnknownCheckpointIds == ({"nope", ""} \cup TimelineIds) \ CheckpointIds
UnknownTimelineIds == ({"nope", ""} \cup CheckpointIds) \ TimelineIds

\* the store operations, called with known and with unknown identifiers
NextErr ==
  \/ StoreNext(MaxErrIds)
  \/ \E checkpointId \in UnknownCheckpointIds : restoreCheckpoint(checkpointId)
  \/ \E checkpointId \in UnknownCheckpointIds : deleteCheckpoint(checkpointId)
  \/ nextId <= MaxErrIds /\
       \E n \in BranchNames, from \in UnknownCheckpointIds :
         createBranch([name |-> n, fromCheckpointId |-> from])
  \/ \E timelineId \in UnknownTimelineIds : switchTimeline(timelineId)
  \/ \E timelineId \in UnknownTimelineIds : deleteTimeline(timelineId)

SpecErr == Init /\ [][NextErr]_vars

\* the last call raised NotFound naming its identifier and changed nothing
FailedNotFound ==
  last.err = NotFound /\ last.ret = last.id /\ getState = last.pre

\* C11: restoreCheckpoint and createBranch with an unknown checkpoint id,
\* switchTimeline and deleteTimeline with an unknown timeline id raise a
\* not-found error naming the identifier, deleteTimeline('main') raises the
\* protected-resource error, every failing call leaves the state as it was,
\* and capture, clearCaptures, createCheckpoint, deleteCheckpoint never fail.
C11_FailingCalls ==
  /\ (/\ last.op \in {"restoreCheckpoint", "createBranch"}
      /\ last.id # Undefined
      /\ ~Has(last.pre.checkpoints, last.id)) => FailedNotFound
  /\ (/\ last.op \in {"switchTimeline", "deleteTimeline"}
      /\ last.id # MAIN_TIMELINE_ID
      /\ ~Has(last.pre.timelines, last.id)) => FailedNotFound
  /\ (last.op = "deleteTimeline" /\ last.id = MAIN_TIMELINE_ID)
       => last.err = ProtectedResource /\ getState = last.pre
  /\ last.err # None => getState = last.pre
  /\ last.op \in {"capture", "clearCaptures", "createCheckpoint", "deleteCheckpoint"}
       => last.err = None

\* ------------------------------------------------------ C12: findCapture
MaxFindCaptures == 2
MaxFindIds == 1

\* pairs that agree or differ in method, url and id
FindPairs ==
  { Pair1,
    [id |-> "r2", method |-> "GET", url |-> "/a", status |-> 500],
    [id |-> "r3", method |-> "POST", url |-> "/a", status |-> 201] }

FindMethods == {"GET", "POST"}
FindUrls == {"/a", "/b"}

\* the loop of findCapture: from index i down to the first element
RECURSIVE findCaptureFrom(_, _, _, _)
findCaptureFrom(captures, i, method, url) ==
  IF i < 1
    THEN << >>
    ELSE IF captures[i].method = method /\ captures[i].url = url
           THEN <<captures[i]>>
           ELSE findCaptureFrom(captures, i - 1, method, url)

\* the scan run from the front: the oldest match
findCapture_oldest(method, url) ==
  /\ LET hits == { i \in DOMAIN currentCaptures :
                     /\ currentCaptures[i].method = method
                     /\ currentCaptures[i].url = url }
     IN last' = [Call("findCapture", Undefined, None, Undefined)
                   EXCEPT !.query = <<method, url>>,
                          !.found = IF hits = {}
                                      THEN << >>
                                      ELSE <<currentCaptures[
                                               CHOOSE i \in hits : \A j \in hits : i <= j]>>]
  /\ UNCHANGED <<currentTimelineId, timelines, checkpoints, currentCaptures, nextId,
                 persist, instances, wrapper>>

findCapture(method, url) ==
  /\ last' = [Call("findCapture", Undefined, None, Undefined)
                EXCEPT !.query = <<method, url>>,
                       !.found = findCaptureFrom(currentCaptures, Len(currentCaptures),
                                                 method, url)]
  /\ UNCHANGED <<currentTimelineId, timelines, checkpoints, currentCaptures, nextId,
                 persist, instances, wrapper>>

NextFind ==
  \/ Len(currentCaptures) < MaxFindCaptures /\ \E pair \in FindPairs : capture(pair)
  \/ clearCaptures
  \/ nextId <= MaxFindIds /\ \E options \in CheckpointOptionsSet : createCheckpoint(options)
  \/ \E checkpointId \in CheckpointIds : restoreCheckpoint(checkpointId)
  \/ \E method \in FindMethods, url \in FindUrls : findCapture(method, url)

SpecFind == Init /\ [][NextFind]_vars

\* indices of the live buffer whose pair has this method and url
Matches(captures, query) ==
  { i \in DOMAIN captures :
      captures[i].method = query[1] /\ captures[i].url = query[2] }

Highest(S) == CHOOSE i \in S : \A j \in S : j <= i

\* C12: findCapture(method, url) returns the pair at the highest index of
\* the live buffer whose method and url both equal the arguments, undefined
\* when the buffer has no such pair (also when a checkpoint holds one), and
\* changes nothing.
C12_FindCapture ==
  last.op = "findCapture" =>
    /\ getState = last.pre
    /\ LET hits == Matches(currentCaptures, last.query)
       IN IF hits = {}
            THEN last.found = << >>
            ELSE last.found = <<currentCaptures[Highest(hits)]>>

\* two matching pairs in the buffer, the later one returned
C12_Witness ==
  /\ last.op = "findCapture"
  /\ Cardinality(Matches(currentCaptures, last.query)) = 2
  /\ last.found # <<currentCaptures[1]>>
  /\ last.found = <<currentCaptures[2]>>

\* a matching pair held only by a checkpoint: nothing is returned
C12_WitnessCheckpointOnly ==
  /\ last.op = "findCapture"
  /\ last.found = << >>
  /\ \E i \in DOMAIN checkpoints :
       Matches(checkpoints[i][2].captures, last.query) # {}

\* ------------------------------------- C13: serializeState / deserializeState
\* C13: in every state the store operations reach, deserializeState of
\* serializeState of the state has the same currentTimelineId, the same
\* timeline and checkpoint entries in the same insertion order, and the
\* same live buffer.
C13_SerializeRoundTrip ==
  LET back == deserializeState(serializeState(getState))
  IN /\ back.currentTimelineId = currentTimelineId
     /\ back.timelines = timelines
     /\ back.checkpoints = checkpoints
     /\ back.currentCaptures = currentCaptures

\* a state with two timelines, two checkpoints and a pair in the buffer
C13_Witness ==
  /\ Len(timelines) = 2
  /\ Len(checkpoints) = 2
  /\ currentTimelineId # MAIN_TIMELINE_ID
  /\ currentCaptures # << >>
  /\ deserializeState(serializeState(getState)).checkpoints = checkpoints

\* ------------------------------------------------- C18, C14: exportState
MaxExportIds == 2

\* Array.from(map.values())
Values(map) == [i \in 1..Len(map) |-> map[i][2]]

\* checkpoints.filter(c => c.timelineId === timelineId)
CheckpointsOf(list, timelineId) ==
  SelectSeq(list, LAMBDA c : c.timelineId = timelineId)

\* a scoped export that takes every checkpoint of the store
exportState_allCheckpoints(timelineId) ==
  IF timelineId # Undefined /\ ~Has(timelines, timelineId)
    THEN /\ last' = Call("exportState", timelineId, NotFound, timelineId)
         /\ UNCHANGED <<currentTimelineId, timelines, checkpoints, currentCaptures, nextId,
                        persist, instances, wrapper>>
    ELSE LET data ==
               IF timelineId = Undefined
                 THEN ExportData(Values(timelines), Values(checkpoints), currentCaptures)
                 ELSE ExportData(<<Get(timelines, timelineId)>>,
                                 Values(checkpoints),
                                 IF timelineId = currentTimelineId
                                   THEN currentCaptures ELSE << >>)
         IN /\ last' = [Call("exportState", timelineId, None, Undefined)
                          EXCEPT !.exported = <<data>>]
            /\ UNCHANGED <<currentTimelineId, timelines, checkpoints, currentCaptures, nextId,
                           persist, instances, wrapper>>

\* exportState({timeline: timelineId}); Undefined for exportState()
exportState(timelineId) ==
  IF timelineId # Undefined /\ ~Has(timelines, timelineId)
    THEN /\ last' = Call("exportState", timelineId, NotFound, timelineId)
         /\ UNCHANGED <<currentTimelineId, timelines, checkpoints, currentCaptures, nextId,
                        persist, instances, wrapper>>
    ELSE LET data ==
               IF timelineId = Undefined
                 THEN ExportData(Values(timelines), Values(checkpoints), currentCaptures)
                 ELSE ExportData(<<Get(timelines, timelineId)>>,
                                 CheckpointsOf(Values(checkpoints), timelineId),
                                 IF timelineId = currentTimelineId
                                   THEN currentCaptures ELSE << >>)
         IN /\ last' = [Call("exportState", timelineId, None, Undefined)
                          EXCEPT !.exported = <<data>>]
            /\ UNCHANGED <<currentTimelineId, timelines, checkpoints, currentCaptures, nextId,
                           persist, instances, wrapper>>

NextExport ==
  \/ StoreNext(MaxExportIds)
  \/ \E timelineId \in TimelineIds \cup {Undefined, "nope"} : exportState(timelineId)

SpecExport == Init /\ [][NextExport]_vars

\* the elements of a list, as a set
Range(list) == { list[i] : i \in DOMAIN list }

\* C18: exportState({timeline: id}) of an existing timeline returns that
\* timeline only, exactly the checkpoints whose timelineId is id, and the
\* live buffer if id is the current timeline, no captures otherwise; with
\* an unknown id it fails with not-found; exportState() returns every
\* timeline, every checkpoint and the live buffer; the state never changes.
C18_ExportState ==
  last.op = "exportState" =>
    /\ getState = last.pre
    /\ (last.id # Undefined /\ ~Has(timelines, last.id))
         => last.err = NotFound /\ last.ret = last.id /\ last.exported = << >>
    /\ (last.id # Undefined /\ Has(timelines, last.id))
         => /\ last.err = None
            /\ last.exported[1].timelines = <<Get(timelines, last.id)>>
            /\ Range(last.exported[1].checkpoints) =
                 { c \in Range(Values(checkpoints)) : c.timelineId = last.id }
            /\ Len(last.exported[1].checkpoints) =
                 Cardinality(Range(last.exported[1].checkpoints))
            /\ last.exported[1].captures =
                 IF last.id = currentTimelineId THEN currentCaptures ELSE << >>
    /\ last.id = Undefined
         => /\ last.err = None
            /\ last.exported[1].timelines = Values(timelines)
            /\ last.exported[1].checkpoints = Values(checkpoints)
            /\ last.exported[1].captures = currentCaptures

\* a scoped export of a timeline that is not current, while the buffer holds
\* a pair and another timeline owns a checkpoint
C18_Witness ==
  /\ Ok("exportState")
  /\ Has(timelines, last.id)
  /\ last.id # currentTimelineId
  /\ currentCaptures # << >>
  /\ last.exported[1].captures = << >>
  /\ Len(last.exported[1].checkpoints) < Len(checkpoints)

\* C14: importState(A.exportState(), replace) on a fresh store B gives B the
\* timelines, the checkpoints and the live buffer of A, and makes A's
\* current timeline B's current timeline.
C14_ExportImportRoundTrip ==
  (Ok("exportState") /\ last.id = Undefined) =>
    /\ validateExportData(last.exported[1]) = None
    /\ LET B == importReplace(last.exported[1])
       IN /\ B.timelines = timelines
          /\ B.checkpoints = checkpoints
          /\ B.currentCaptures = currentCaptures
          /\ B.currentTimelineId = currentTimelineId

\* --------------------------------- C15, C16, C17: importState of documents
MaxDocCaptures == 3

\* a pair of another request
Pair2 == [id |-> "r2", method |-> "POST", url |-> "/b", status |-> 201]

\* a document whose entries share ids with entries of the importing store
DocColliding ==
  ExportData(<<ForeignTimeline("x1", Null),
               ForeignTimeline(MAIN_TIMELINE_ID, Null),
               ForeignTimeline("g1", "x1")>>,
             <<ForeignCheckpoint("g1", "x1", <<Pair1>>),
               ForeignCheckpoint("x2", "x1", << >>)>>,
             <<Pair2, Pair1>>)

\* documents that pass validation; the last one is of a version that is
\* not EXPORT_VERSION
ValidDocs ==
  << ExportData(<< >>, << >>, << >>),
     DocColliding,
     [DocColliding EXCEPT !.version = "2.0"] >>

\* documents that fail validation, one per rule; the entry at fault comes
\* after entries that are valid
InvalidDocs ==
  << [DocColliding EXCEPT !.versionType = Undefined],
     [DocColliding EXCEPT !.versionType = "number"],
     [DocColliding EXCEPT !.arrays = @ \ {"timelines"}],
     [DocColliding EXCEPT !.arrays = @ \ {"checkpoints"}],
     [DocColliding EXCEPT !.arrays = @ \ {"captures"}],
     [DocColliding EXCEPT !.timelines[3].id = Undefined],
     [DocColliding EXCEPT !.timelines[3].name = Undefined],
     [DocColliding EXCEPT !.checkpoints[2].id = Undefined],
     [DocColliding EXCEPT !.checkpoints[2].name = Undefined],
     [DocColliding EXCEPT !.checkpoints[2].timelineId = Undefined] >>

\* the documents offered to importState: the valid ones, then the invalid
ImportDocs == ValidDocs \o InvalidDocs

\* generateId() returns an identifier the store does not hold
IdFresh == ~Has(checkpoints, GenerateId) /\ ~Has(timelines, GenerateId)

NextDocs ==
  \/ Len(currentCaptures) < MaxCaptures /\ capture(Pair1)
  \/ nextId <= MaxImportIds /\ IdFresh /\
       \E options \in CheckpointOptionsSet : createCheckpoint(options)
  \/ nextId <= MaxImportIds /\ IdFresh /\
       \E n \in BranchNames : createBranch([name |-> n, fromCheckpointId |-> Undefined])
  \/ \E d \in DOMAIN ImportDocs, strategy \in {"replace", "merge", Undefined} :
       /\ strategy = "merge" =>
            Len(currentCaptures) + Len(ImportDocs[d].captures) <= MaxDocCaptures
       /\ importState(d, ImportDocs[d], strategy)

SpecDocs == Init /\ [][NextDocs]_vars

\* C15: importState with strategy merge leaves every timeline and every
\* checkpoint that existed before the call as it was, field by field, also
\* when the document has an entry with the same id.
C15_MergeKeepsExisting ==
  (Ok("importState") /\ last.strategy = "merge") =>
    /\ Preserved(last.pre.timelines, timelines)
    /\ Preserved(last.pre.checkpoints, checkpoints)

\* a merge whose document has a timeline and a checkpoint under ids the
\* store holds, with other contents
C15_Witness ==
  /\ Ok("importState")
  /\ last.strategy = "merge"
  /\ \E i \in DOMAIN ImportDocs[last.doc].checkpoints :
       LET c == ImportDocs[last.doc].checkpoints[i]
       IN Has(last.pre.checkpoints, c.id) /\ Get(last.pre.checkpoints, c.id) # c
  /\ \E i \in DOMAIN ImportDocs[last.doc].timelines :
       LET t == ImportDocs[last.doc].timelines[i]
       IN Has(last.pre.timelines, t.id) /\ Get(last.pre.timelines, t.id) # t
  /\ Len(timelines) > Len(last.pre.timelines)

\* C16: importState of a document that fails validation, under either
\* strategy, raises a validation error and leaves timelines, checkpoints,
\* currentTimelineId and the live buffer as they were, also when the entry
\* at fault comes after valid entries.
C16_ImportAllOrNothing ==
  (last.op = "importState" /\ last.doc > Len(ValidDocs)) =>
    /\ last.err = ValidationError
    /\ getState = last.pre

\* a merge and a replace into a store that holds a checkpoint, of a document
\* whose last checkpoint entry, after a valid one, has no timelineId
C16_Witness ==
  /\ last.op = "importState"
  /\ last.doc = Len(ImportDocs)
  /\ last.err = ValidationError
  /\ last.strategy = "merge"
  /\ checkpoints # << >>

\* C17: importState with strategy replace, or with no strategy, leaves
\* exactly the imported timelines (and main) and the imported checkpoints,
\* makes the first timeline of the document current, main when it has
\* none, and makes the imported captures the live buffer.
C17_ImportReplace ==
  (Ok("importState") /\ last.strategy # "merge") =>
    LET data == ImportDocs[last.doc]
    IN /\ Keys(timelines) =
            { data.timelines[i].id : i \in DOMAIN data.timelines } \cup {MAIN_TIMELINE_ID}
       /\ \A i \in DOMAIN data.timelines :
            Get(timelines, data.timelines[i].id) = data.timelines[i]
       /\ Keys(checkpoints) = { data.checkpoints[i].id : i \in DOMAIN data.checkpoints }
       /\ \A i \in DOMAIN data.checkpoints :
            Get(checkpoints, data.checkpoints[i].id) = data.checkpoints[i]
       /\ currentTimelineId =
            IF data.timelines = << >> THEN MAIN_TIMELINE_ID ELSE data.timelines[1].id
       /\ currentCaptures = data.captures

\* a replace with no strategy given, of a document with several timelines,
\* into a store holding a checkpoint that is gone afterwards
C17_Witness ==
  /\ Ok("importState")
  /\ last.strategy = Undefined
  /\ Len(ImportDocs[last.doc].timelines) > 1
  /\ \E i \in DOMAIN last.pre.checkpoints :
       \A j \in DOMAIN checkpoints : checkpoints[j] # last.pre.checkpoints[i]
  /\ last.pre.currentCaptures # currentCaptures
  /\ currentTimelineId = "x1"

\* ------------------------------------ C19, C20: the persistent store
MaxPersistIds == 1
MaxWrites == 2

\* a state an earlier session of the store has persisted
PersistedState ==
  [createInitialState EXCEPT
     !.checkpoints = <<<<"p1", ForeignCheckpoint("p1", MAIN_TIMELINE_ID, <<Pair1>>)>>>>,
     !.currentCaptures = <<Pair1>>]

\* what the backend holds under the storage key when the store is built:
\* nothing, a persisted state, or text that JSON.parse rejects
BackendEntries ==
  { [kind |-> None, state |-> serializeState(createInitialState)],
    [kind |-> "valid", state |-> serializeState(PersistedState)],
    [kind |-> "unparsable", state |-> serializeState(createInitialState)] }

\* createPersistentMockChainStore: the initial state, hydrated false, and
\* the one read of the backend that persist starts during construction
InitPersist ==
  /\ currentTimelineId = createInitialState.currentTimelineId
  /\ timelines = createInitialState.timelines
  /\ checkpoints = createInitialState.checkpoints
  /\ currentCaptures = createInitialState.currentCaptures
  /\ nextId = 1
  /\ last = NoCall
  /\ \E entry \in BackendEntries, readFails \in BOOLEAN :
       persist = PersistentStore(entry, readFails)
  /\ instances = NoInstances
  /\ wrapper = NoWrapper

\* the storage getItem settles: it rejects when the backend read fails, gives
\* null for no entry and for text that does not parse, and the deserialized
\* state otherwise
getItem ==
  /\ persist.on /\ persist.loaded = << >>
  /\ persist' =
       [persist EXCEPT !.loaded =
          IF persist.readFails
            THEN <<[kind |-> "rejected", state |-> createInitialState]>>
          ELSE IF persist.entry.kind = "valid"
            THEN <<[kind |-> "value", state |-> deserializeState(persist.entry.state)]>>
            ELSE <<[kind |-> Null, state |-> createInitialState]>>]
  /\ last' = Call("getItem", Undefined, None, Undefined)
  /\ UNCHANGED <<currentTimelineId, timelines, checkpoints, currentCaptures, nextId, instances, wrapper>>

\* the end of hydration with the callback run only after a successful load
rehydrate_onSuccess ==
  /\ persist.on /\ persist.loaded # << >> /\ ~persist.hydrated
  /\ persist.loaded[1].kind # "rejected"
  /\ LET state == IF persist.loaded[1].kind = "value"
                    THEN persist.loaded[1].state ELSE getState
     IN /\ currentTimelineId' = state.currentTimelineId
        /\ timelines' = state.timelines
        /\ checkpoints' = state.checkpoints
        /\ currentCaptures' = state.currentCaptures
  /\ persist' = [persist EXCEPT !.hydrated = TRUE, !.resolved = TRUE,
                                !.cleared = @ /\ persist.loaded[1].kind # "value"]
  /\ last' = Call("rehydrate", Undefined, None, Undefined)
  /\ UNCHANGED <<nextId, instances, wrapper>>

rehydrate_again ==
  /\ persist.on /\ persist.loaded # << >>
  /\ LET state == IF persist.loaded[1].kind = "value"
                    THEN persist.loaded[1].state ELSE getState
     IN /\ currentTimelineId' = state.currentTimelineId
        /\ timelines' = state.timelines
        /\ checkpoints' = state.checkpoints
        /\ currentCaptures' = state.currentCaptures
  /\ persist' = [persist EXCEPT !.hydrated = TRUE, !.resolved = TRUE,
                                !.cleared = @ /\ persist.loaded[1].kind # "value"]
  /\ last' = Call("rehydrate", Undefined, None, Undefined)
  /\ UNCHANGED <<nextId, instances, wrapper>>

\* a merge that keeps the live buffer of the store in memory
rehydrate_keepBuffer ==
  /\ persist.on /\ persist.loaded # << >> /\ ~persist.hydrated
  /\ LET state == IF persist.loaded[1].kind = "value"
                    THEN persist.loaded[1].state ELSE getState
     IN /\ currentTimelineId' = state.currentTimelineId
        /\ timelines' = state.timelines
        /\ checkpoints' = state.checkpoints
        /\ currentCaptures' = currentCaptures
  /\ persist' = [persist EXCEPT !.hydrated = TRUE, !.resolved = TRUE,
                                !.cleared = @ /\ persist.loaded[1].kind # "value"]
  /\ last' = Call("rehydrate", Undefined, None, Undefined)
  /\ UNCHANGED <<nextId, instances, wrapper>>

\* the end of hydration: a loaded state is merged over the state in memory,
\* then the onRehydrateStorage callback sets hydrated and resolves the
\* promise of waitForHydration, after a rejected load as well
rehydrate ==
  /\ persist.on /\ persist.loaded # << >> /\ ~persist.hydrated
  /\ LET state == IF persist.loaded[1].kind = "value"
                    THEN persist.loaded[1].state ELSE getState
     IN /\ currentTimelineId' = state.currentTimelineId
        /\ timelines' = state.timelines
        /\ checkpoints' = state.checkpoints
        /\ currentCaptures' = state.currentCaptures
  /\ persist' = [persist EXCEPT !.hydrated = TRUE, !.resolved = TRUE,
                                !.cleared = @ /\ persist.loaded[1].kind # "value"]
  /\ last' = Call("rehydrate", Undefined, None, Undefined)
  /\ UNCHANGED <<nextId, instances, wrapper>>

\* a list without its i-th element
Without(list, i) == SubSeq(list, 1, i - 1) \o SubSeq(list, i + 1, Len(list))

\* a backend write in flight completes: the entry is the state it carries;
\* the backend completes the writes in flight in any order
setItemLands(i) ==
  /\ persist' = [persist EXCEPT !.entry = [kind |-> "valid", state |-> persist.writes[i]],
                                !.writes = Without(@, i),
                                !.early = @ \/ persist.loaded = << >>]
  /\ last' = Call("setItemLands", Undefined, None, Undefined)
  /\ UNCHANGED <<currentTimelineId, timelines, checkpoints, currentCaptures, nextId, instances, wrapper>>

\* clearPersistedState up to its await: the backend removal is in flight
clearPersistedState ==
  /\ persist.on /\ ~persist.clearing
  /\ persist' = [persist EXCEPT !.clearing = TRUE, !.raced = FALSE]
  /\ last' = Call("clearPersistedState", Undefined, None, Undefined)
  /\ UNCHANGED <<currentTimelineId, timelines, checkpoints, currentCaptures, nextId, instances, wrapper>>

\* the rest of clearPersistedState once the removal has settled, the backend
\* then holding entry: store.setState(createInitialState()), which calls
\* setItem as every setState does, and the promise resolves
afterRemoveItem(entry, failed) ==
  /\ persist.on /\ persist.clearing
  /\ currentTimelineId' = createInitialState.currentTimelineId
  /\ timelines' = createInitialState.timelines
  /\ checkpoints' = createInitialState.checkpoints
  /\ currentCaptures' = createInitialState.currentCaptures
  /\ persist' = [persist EXCEPT
                   !.entry = entry,
                   !.early = @ \/ (persist.loaded = << >> /\ ~failed),
                   !.clearing = FALSE,
                   !.cleared = TRUE,
                   !.failed = @ \/ failed,
                   !.dirty = @ \/ persist.hydrated,
                   !.writes = Append(@, serializeState(createInitialState)),
                   !.lastWrite = <<serializeState(createInitialState)>>]
  /\ UNCHANGED <<nextId, instances, wrapper>>

\* the backend removes the entry
removeItemLands ==
  /\ afterRemoveItem([kind |-> None, state |-> serializeState(createInitialState)],
                     FALSE)
  /\ last' = Call("removeItemLands", Undefined, None, Undefined)

\* the backend fails to remove the entry: the storage adapter logs the error
\* and resolves, and clearPersistedState goes on
removeItemFails ==
  /\ afterRemoveItem(persist.entry, TRUE)
  /\ last' = Call("removeItemFails", Undefined, None, Undefined)

\* a failing backend write that takes the state in memory back to the entry
setItemFails_rollback(i) ==
  /\ persist.on
  /\ persist' = [persist EXCEPT !.writes = Without(@, i), !.failed = TRUE]
  /\ last' = Call("setItemFails", Undefined, None, Undefined)
  /\ LET state == deserializeState(persist.entry.state)
     IN /\ currentTimelineId' = state.currentTimelineId
        /\ timelines' = state.timelines
        /\ checkpoints' = state.checkpoints
        /\ currentCaptures' = state.currentCaptures
  /\ UNCHANGED <<nextId, instances, wrapper>>

\* a backend write in flight fails: the storage adapter logs the error and
\* resolves, the entry stays as it was
setItemFails(i) ==
  /\ persist.on
  /\ persist' = [persist EXCEPT !.writes = Without(@, i), !.failed = TRUE]
  /\ last' = Call("setItemFails", Undefined, None, Undefined)
  /\ UNCHANGED <<currentTimelineId, timelines, checkpoints, currentCaptures, nextId, instances, wrapper>>

NextPersist ==
  \/ Len(persist.writes) < MaxWrites /\ StoreNext(MaxPersistIds)
  \/ getItem
  \/ rehydrate
  \/ \E i \in DOMAIN persist.writes : setItemLands(i)

SpecPersist == InitPersist /\ [][NextPersist]_vars

\* hydration, with calls that set the live buffer before and after it
NextHydrate ==
  \/ /\ Len(persist.writes) < MaxWrites
     /\ Len(currentCaptures) < MaxCaptures
     /\ capture(Pair1)
  \/ Len(persist.writes) < MaxWrites /\ clearCaptures
  \/ getItem
  \/ rehydrate
  \/ \E i \in DOMAIN persist.writes : setItemLands(i)

\* the backend read settles and promise continuations run
SpecHydrate ==
  /\ InitPersist
  /\ [][NextHydrate]_vars
  /\ WF_vars(getItem)
  /\ WF_vars(rehydrate)

MutatingOps ==
  {"capture", "clearCaptures", "createCheckpoint", "restoreCheckpoint",
   "deleteCheckpoint", "createBranch", "switchTimeline", "deleteTimeline"}

\* C20: in a hydrated persistent store each mutating operation puts a write
\* of the state it produced in flight, and when a mutation has happened and
\* no write is in flight the backend entry is the serialization of the
\* state in memory.
C20_WriteThrough ==
  /\ (persist.hydrated /\ last.op \in MutatingOps /\ last.err = None)
       => /\ persist.writes # << >>
          /\ persist.writes[Len(persist.writes)] = serializeState(getState)
  /\ (persist.hydrated /\ persist.dirty /\ persist.writes = << >>)
       => persist.entry = [kind |-> "valid", state |-> serializeState(getState)]

\* C26: at most one backend write of the storage key is in flight at a time,
\* and once every write has landed the backend entry is the one written by
\* the latest state change.
C26_SerializedWrites ==
  /\ Len(persist.writes) <= 1
  /\ (persist.writes = << >> /\ persist.lastWrite # << >>)
       => persist.entry = [kind |-> "valid", state |-> persist.lastWrite[1]]

\* ------------------------------------------ C22, C27, C28: clearing
\* live buffer calls, hydration and clearPersistedState on a backend that
\* completes each write and each removal after a delay of its own
NextClear ==
  \/ /\ Len(persist.writes) < MaxWrites
     /\ Len(currentCaptures) < MaxCaptures
     /\ capture(Pair1)
  \/ Len(persist.writes) < MaxWrites /\ clearCaptures
  \/ getItem
  \/ rehydrate
  \/ \E i \in DOMAIN persist.writes : setItemLands(i)
  \/ Len(persist.writes) < MaxWrites /\ clearPersistedState
  \/ removeItemLands

SpecClear == InitPersist /\ [][NextClear]_vars

\* clearPersistedState has resolved in a store that was hydrated, no state
\* was set since, and no write and no removal is in flight
Settled ==
  /\ persist.cleared
  /\ persist.hydrated
  /\ ~persist.clearing
  /\ persist.writes = << >>

\* C22: once clearPersistedState has resolved and every scheduled write has
\* completed, the backend holds no entry under the storage key and the
\* state in memory is the initial state.
C22_ClearPersistedState ==
  Settled => /\ persist.entry.kind = None
             /\ getState = createInitialState

\* C27: when a state change was made while clearPersistedState was awaiting
\* the removal, then once everything has settled the backend holds no entry
\* or the initial state, and the state in memory is the initial state:
\* neither holds data from before the clear.
C27_ClearAtomic ==
  (Settled /\ persist.raced)
    => /\ persist.entry.kind = None
          \/ persist.entry = [kind |-> "valid",
                              state |-> serializeState(createInitialState)]
       /\ getState = createInitialState

\* C28: once the promise of waitForHydration has resolved, the state in
\* memory is never replaced by data loaded from the backend: a step that
\* changes it is one store operation and has that operation's effect.
C28_NoLateHydration ==
  [][(persist.resolved /\ getState' # getState)
      => /\ timelines' = timelines \/ last'.op = "removeItemLands"
         /\ \/ /\ last'.op = "capture"
               /\ getState' = [getState EXCEPT
                      !.currentCaptures = @ \o last'.pair]
            \/ /\ last'.op = "clearCaptures"
               /\ getState' = [getState EXCEPT !.currentCaptures = << >>]
            \/ /\ last'.op = "removeItemLands"
               /\ getState' = createInitialState]_vars

\* a store hydrated from a backend entry whose live buffer was emptied
\* afterwards
C28_Witness ==
  /\ persist.resolved
  /\ persist.loaded[1].kind = "value"
  /\ last.op = "clearCaptures"
  /\ persist.loaded[1].state.currentCaptures # << >>
  /\ currentCaptures = << >>

\* ------------------------------------------ C25: backend failures
\* live buffer calls, hydration and clearPersistedState on a backend whose reads,
\* writes and removals can fail
NextFail ==
  \/ /\ Len(persist.writes) < MaxWrites
     /\ Len(currentCaptures) < MaxCaptures
     /\ capture(Pair1)
  \/ Len(persist.writes) < MaxWrites /\ clearCaptures
  \/ getItem
  \/ rehydrate
  \/ \E i \in DOMAIN persist.writes : setItemLands(i)
  \/ \E i \in DOMAIN persist.writes : setItemFails(i)
  \/ Len(persist.writes) < MaxWrites /\ clearPersistedState
  \/ removeItemLands
  \/ removeItemFails

SpecFail == InitPersist /\ [][NextFail]_vars

restart ==
  /\ persist.on /\ persist.first = << >>
  /\ persist.lastWrite # << >>
  /\ persist.writes = << >> /\ ~persist.clearing
  /\ currentTimelineId' = createInitialState.currentTimelineId
  /\ timelines' = createInitialState.timelines
  /\ checkpoints' = createInitialState.checkpoints
  /\ currentCaptures' = createInitialState.currentCaptures
  /\ persist' = [PersistentStore(persist.entry, FALSE) EXCEPT
                   !.first = persist.lastWrite]
  /\ last' = Call("restart", Undefined, None, Undefined)
  /\ UNCHANGED <<nextId, instances, wrapper>>

NextRestart ==
  \/ Len(persist.writes) < MaxWrites /\ StoreNext(MaxPersistIds)
  \/ getItem
  \/ rehydrate
  \/ \E i \in DOMAIN persist.writes : setItemLands(i)
  \/ restart

SpecRestart == InitPersist /\ [][NextRestart]_vars

\* C21: when the hydration of the second store completes, no call having
\* been made on it before, its state is the state the first store had at
\* its last write.
C21_SecondStore ==
  (persist.first # << >> /\ last.op = "rehydrate" /\ persist.lastWrite = << >>)
    => getState = deserializeState(persist.first[1])

\* ------------------------------------------ C23, C24: store instances
MaxInstances == 3

\* the module-level backend entry the default storage of a persistent store
\* holds: the one of the store in focus when that store is persistent
Backend == IF persist.on THEN persist.entry ELSE instances.backend

\* the closure of a store just built: its state and its persist middleware
NewCell(p) == [state |-> createInitialState, persist |-> p]

\* the state read through store object h, with store objects and closures
\* inst and the store in focus in state
ObserveIn(inst, state, h) ==
  IF inst.handles[h] = inst.handles[inst.cur]
    THEN state
    ELSE inst.cells[inst.handles[h]].state

\* the state read through store object h
Observe(h) == ObserveIn(instances, getState, h)

\* a process with one store built by createMockChainStore, on which the
\* calls are made: cells are the closures of the stores built so far (the
\* one of the store in focus is kept in the store variables), handles the
\* store objects handed out, each with the function that built it, cur the
\* one the calls are made on, defaultStore and defaultPersistentStore the
\* module variables (0 for null); got is the store object the last get or
\* create returned (0 after other calls), sinceReset and
\* sinceResetPersistent the one the gets since the last reset returned
InitInstances ==
  /\ currentTimelineId = createInitialState.currentTimelineId
  /\ timelines = createInitialState.timelines
  /\ checkpoints = createInitialState.checkpoints
  /\ currentCaptures = createInitialState.currentCaptures
  /\ nextId = 1
  /\ last = NoCall
  /\ persist = NoPersistence
  /\ instances =
       [on |-> TRUE,
        cells |-> <<NewCell(NoPersistence)>>,
        handles |-> <<1>>,
        by |-> <<"createMockChainStore">>,
        cur |-> 1,
        defaultStore |-> 0,
        defaultPersistentStore |-> 0,
        backend |-> [kind |-> None, state |-> serializeState(createInitialState)],
        got |-> 0,
        sinceReset |-> 0,
        sinceResetPersistent |-> 0]
  /\ wrapper = NoWrapper

\* a store object over the closure of the store in focus
createMockChainStore_shared ==
  /\ instances.on
  /\ instances' = [instances EXCEPT
        !.handles = Append(@, instances.handles[instances.cur]),
        !.by = Append(@, "createMockChainStore"),
        !.got = Len(instances.handles) + 1]
  /\ last' = Call("createMockChainStore", Undefined, None, Undefined)
  /\ UNCHANGED <<currentTimelineId, timelines, checkpoints, currentCaptures, nextId,
                 persist, wrapper>>

\* createStore(() => createInitialState()) and createStoreActions(store)
createMockChainStore ==
  /\ instances.on
  /\ instances' = [instances EXCEPT
        !.cells = Append(@, NewCell(NoPersistence)),
        !.handles = Append(@, Len(instances.cells) + 1),
        !.by = Append(@, "createMockChainStore"),
        !.got = Len(instances.handles) + 1]
  /\ last' = Call("createMockChainStore", Undefined, None, Undefined)
  /\ UNCHANGED <<currentTimelineId, timelines, checkpoints, currentCaptures, nextId,
                 persist, wrapper>>

\* the store objects after defaultStore ??= createMockChainStore()
defaultStore_orCreate ==
  IF instances.defaultStore = 0
    THEN [instances EXCEPT
            !.cells = Append(@, NewCell(NoPersistence)),
            !.handles = Append(@, Len(instances.cells) + 1),
            !.by = Append(@, "getMockChainStore"),
            !.defaultStore = Len(instances.handles) + 1,
            !.got = Len(instances.handles) + 1,
            !.sinceReset = Len(instances.handles) + 1]
    ELSE [instances EXCEPT
            !.got = instances.defaultStore,
            !.sinceReset = instances.defaultStore]

\* defaultStore ??= createMockChainStore(); return defaultStore
getMockChainStore ==
  /\ instances.on
  /\ instances' = defaultStore_orCreate
  /\ last' = Call("getMockChainStore", Undefined, None, Undefined)
  /\ UNCHANGED <<currentTimelineId, timelines, checkpoints, currentCaptures, nextId,
                 persist, wrapper>>

\* a reset that leaves the module variable as it is
resetMockChainStore_keep ==
  /\ instances.on
  /\ instances' = [instances EXCEPT
        !.got = 0,
        !.sinceReset = 0]
  /\ last' = Call("resetMockChainStore", Undefined, None, Undefined)
  /\ UNCHANGED <<currentTimelineId, timelines, checkpoints, currentCaptures, nextId,
                 persist, wrapper>>

\* defaultStore = null
resetMockChainStore ==
  /\ instances.on
  /\ instances' = [instances EXCEPT
        !.defaultStore = 0,
        !.got = 0,
        !.sinceReset = 0]
  /\ last' = Call("resetMockChainStore", Undefined, None, Undefined)
  /\ UNCHANGED <<currentTimelineId, timelines, checkpoints, currentCaptures, nextId,
                 persist, wrapper>>

\* defaultPersistentStore ??= createPersistentMockChainStore(options);
\* return defaultPersistentStore
getPersistentMockChainStore ==
  /\ instances.on
  /\ instances' =
       IF instances.defaultPersistentStore = 0
         THEN [instances EXCEPT
                 !.cells = Append(@, NewCell(PersistentStore(Backend, FALSE))),
                 !.handles = Append(@, Len(instances.cells) + 1),
                 !.by = Append(@, "getPersistentMockChainStore"),
                 !.defaultPersistentStore = Len(instances.handles) + 1,
                 !.got = Len(instances.handles) + 1,
                 !.sinceResetPersistent = Len(instances.handles) + 1]
         ELSE [instances EXCEPT
                 !.got = instances.defaultPersistentStore,
                 !.sinceResetPersistent = instances.defaultPersistentStore]
  /\ last' = Call("getPersistentMockChainStore", Undefined, None, Undefined)
  /\ UNCHANGED <<currentTimelineId, timelines, checkpoints, currentCaptures, nextId,
                 persist, wrapper>>

\* defaultPersistentStore = null
resetPersistentMockChainStore ==
  /\ instances.on
  /\ instances' = [instances EXCEPT
        !.defaultPersistentStore = 0,
        !.got = 0,
        !.sinceResetPersistent = 0]
  /\ last' = Call("resetPersistentMockChainStore", Undefined, None, Undefined)
  /\ UNCHANGED <<currentTimelineId, timelines, checkpoints, currentCaptures, nextId,
                 persist, wrapper>>

\* the calls that follow are made on store object h: the closure of the
\* store in focus is put back, the one of h is taken up
use(h) ==
  /\ instances.on /\ h # instances.cur
  /\ LET from == instances.handles[instances.cur]
         to == instances.handles[h]
         cell == instances.cells[to]
     IN /\ instances' = [instances EXCEPT
              !.cells[from] = [state |-> getState, persist |-> persist],
              !.backend = Backend,
              !.got = 0,
              !.cur = h]
        /\ IF to = from
             THEN UNCHANGED <<currentTimelineId, timelines, checkpoints,
                              currentCaptures, persist>>
             ELSE /\ currentTimelineId' = cell.state.currentTimelineId
                  /\ timelines' = cell.state.timelines
                  /\ checkpoints' = cell.state.checkpoints
                  /\ currentCaptures' = cell.state.currentCaptures
                  /\ persist' = IF cell.persist.on
                                  THEN [cell.persist EXCEPT !.entry = Backend]
                                  ELSE cell.persist
  /\ last' = Call("use", Undefined, None, Undefined)
  /\ UNCHANGED <<nextId, wrapper>>

\* stores built by createMockChainStore, and live buffer calls on them
NextInstances ==
  \/ /\ Len(instances.handles) < MaxInstances
     /\ createMockChainStore
  \/ \E h \in DOMAIN instances.handles : use(h)
  \/ Len(currentCaptures) < MaxCaptures /\ capture(Pair1)
  \/ clearCaptures

SpecInstances == InitInstances /\ [][NextInstances]_vars

\* the number of backend writes of the store in focus that are in flight
InFlight == IF persist.on THEN Len(persist.writes) ELSE 0

\* the singleton functions, captures on the store the last get returned,
\* and the hydration of the persistent ones
NextSingleton ==
  \/ /\ instances.defaultStore = 0 => Len(instances.handles) < MaxInstances
     /\ getMockChainStore
  \/ resetMockChainStore
  \/ /\ instances.defaultPersistentStore = 0
          => Len(instances.handles) < MaxInstances
     /\ getPersistentMockChainStore
  \/ resetPersistentMockChainStore
  \/ instances.got # 0 /\ use(instances.got)
  \/ /\ InFlight < MaxWrites
     /\ Len(currentCaptures) < MaxCaptures
     /\ capture(Pair1)
  \/ getItem
  \/ rehydrate

SpecSingleton == InitInstances /\ [][NextSingleton]_vars

\* the store objects of inst that share the closure of store object h
SharedWith(inst, h) ==
  { g \in DOMAIN inst.handles \ {h} : inst.handles[g] = inst.handles[h] }

\* C23: a get with no reset since the previous get returns the store that
\* get returned; the first get, and the first get after a reset, returns a
\* store that was never returned before, shares nothing with the stores
\* built before and is in the initial state; for getMockChainStore and for
\* getPersistentMockChainStore.
C23_Singleton ==
  [][/\ last'.op = "getMockChainStore"
         => IF instances.sinceReset # 0
              THEN instances'.got = instances.sinceReset
              ELSE /\ instances'.got \notin DOMAIN instances.handles
                   /\ SharedWith(instances', instances'.got) = {}
                   /\ ObserveIn(instances', getState', instances'.got) = createInitialState
     /\ last'.op = "getPersistentMockChainStore"
         => IF instances.sinceResetPersistent # 0
              THEN instances'.got = instances.sinceResetPersistent
              ELSE /\ instances'.got \notin DOMAIN instances.handles
                   /\ SharedWith(instances', instances'.got) = {}
                   /\ ObserveIn(instances', getState', instances'.got) = createInitialState]_vars

\* getMockChainStore has returned a new store after a reset, and the store
\* it returned before holds a captured pair
C23_Witness ==
  /\ last.op = "getMockChainStore"
  /\ instances.got = instances.defaultStore
  /\ Observe(instances.got) = createInitialState
  /\ \E h \in DOMAIN instances.handles :
       /\ h # instances.got
       /\ instances.by[h] = "getMockChainStore"
       /\ Observe(h).currentCaptures # << >>

Ids(list) == { list[i].id : i \in DOMAIN list }

\* C29: importState with strategy merge adds exactly the document's
\* timelines and checkpoints whose ids the store does not hold, appends the
\* document's captures, in their order, after the live buffer, and leaves
\* currentTimelineId as it was.
C29_MergeAdds ==
  (Ok("importState") /\ last.strategy = "merge") =>
    LET data == ImportDocs[last.doc]
    IN /\ Keys(timelines) = Keys(last.pre.timelines) \cup Ids(data.timelines)
       /\ Keys(checkpoints) = Keys(last.pre.checkpoints) \cup Ids(data.checkpoints)
       /\ \A i \in DOMAIN data.timelines :
            ~Has(last.pre.timelines, data.timelines[i].id)
              => Get(timelines, data.timelines[i].id) = data.timelines[i]
       /\ \A i \in DOMAIN data.checkpoints :
            ~Has(last.pre.checkpoints, data.checkpoints[i].id)
              => Get(checkpoints, data.checkpoints[i].id) = data.checkpoints[i]
       /\ Len(timelines) = Cardinality(Keys(timelines))
       /\ Len(checkpoints) = Cardinality(Keys(checkpoints))
       /\ currentCaptures = last.pre.currentCaptures \o data.captures
       /\ currentTimelineId = last.pre.currentTimelineId

\* a merge on a branch, into a buffer that holds a pair, of a document
\* with two captures, that adds a timeline and a checkpoint
C29_Witness ==
  /\ Ok("importState")
  /\ last.strategy = "merge"
  /\ last.pre.currentCaptures = <<Pair1>>
  /\ currentCaptures = <<Pair1, Pair2, Pair1>>
  /\ currentTimelineId = "g1"
  /\ Len(timelines) > Len(last.pre.timelines)
  /\ Len(checkpoints) > Len(last.pre.checkpoints)

\* C30: importState rejects, with the store unchanged, every document
\* whose version is not EXPORT_VERSION, and not only a document whose
\* version is missing or is no string.
C30_UnknownVersionRejected ==
  (/\ last.op = "importState"
   /\ \/ ImportDocs[last.doc].versionType # "string"
      \/ ImportDocs[last.doc].version # EXPORT_VERSION)
    => last.err = ValidationError /\ getState = last.pre

\* ------------------------------------------ C31..C34, C38: store calls
\* C31: createCheckpoint adds exactly one checkpoint, under an id no
\* checkpoint had, with timelineId the current timeline and captures the
\* live buffer, and leaves the live buffer, currentTimelineId, the timelines
\* map and every existing checkpoint as they were.
C31_CreateCheckpoint ==
  last.op = "createCheckpoint"
    => /\ last.err = None
       /\ ~Has(last.pre.checkpoints, last.ret)
       /\ Has(checkpoints, last.ret)
       /\ checkpoints = Append(last.pre.checkpoints,
                               <<last.ret, Get(checkpoints, last.ret)>>)
       /\ Get(checkpoints, last.ret).id = last.ret
       /\ Get(checkpoints, last.ret).timelineId = last.pre.currentTimelineId
       /\ Get(checkpoints, last.ret).captures = last.pre.currentCaptures
       /\ currentCaptures = last.pre.currentCaptures
       /\ currentTimelineId = last.pre.currentTimelineId
       /\ timelines = last.pre.timelines

\* a checkpoint of a non-empty buffer on a branch, other checkpoints existing
C31_Witness ==
  /\ Ok("createCheckpoint")
  /\ last.pre.currentCaptures # << >>
  /\ last.pre.currentTimelineId # MAIN_TIMELINE_ID
  /\ last.pre.checkpoints # << >>
  /\ currentCaptures # << >>

\* C32: capture succeeds and the live buffer afterwards is the buffer before
\* followed by the pair, clearCaptures empties the live buffer, and both
\* leave timelines, checkpoints and currentTimelineId as they were.
C32_CaptureAppends ==
  /\ last.op = "capture"
       => /\ last.err = None
          /\ currentCaptures = last.pre.currentCaptures \o last.pair
          /\ Len(last.pair) = 1
          /\ getState = [last.pre EXCEPT !.currentCaptures = currentCaptures]
  /\ last.op = "clearCaptures"
       => /\ last.err = None
          /\ getState = [last.pre EXCEPT !.currentCaptures = << >>]

\* a second, different pair captured after a first one
C32_Witness ==
  /\ Ok("capture")
  /\ Len(currentCaptures) = 2
  /\ currentCaptures[1] # currentCaptures[2]
  /\ currentCaptures[2] = last.pair[1]

\* the identifiers generateId() has handed out, and one it never does
IssuedIds == { GenIds[i] : i \in 1..(nextId - 1) } \cup {"nope"}

\* checkpoints made, deleted and restored, by the identifier of a present
\* and of a deleted checkpoint
NextDelete ==
  \/ Len(currentCaptures) < MaxCaptures /\ capture(Pair1)
  \/ nextId <= MaxErrIds /\ \E options \in CheckpointOptionsSet : createCheckpoint(options)
  \/ nextId <= MaxErrIds /\
       \E n \in BranchNames : createBranch([name |-> n, fromCheckpointId |-> Undefined])
  \/ \E checkpointId \in IssuedIds : deleteCheckpoint(checkpointId)
  \/ \E checkpointId \in IssuedIds : restoreCheckpoint(checkpointId)

SpecDelete == Init /\ [][NextDelete]_vars

\* C33: deleteCheckpoint(id) raises no error, removes the checkpoint with
\* that id and changes nothing else, and changes nothing at all when no
\* checkpoint has that id (a second call does what a first one did); an
\* identifier no checkpoint has stays without one, and restoreCheckpoint of
\* it fails with not-found.
C33_DeleteCheckpoint ==
  /\ [](last.op = "deleteCheckpoint"
         => /\ last.err = None
            /\ getState = [last.pre EXCEPT
                  !.checkpoints = MapDelete(@, last.id)]
            /\ ~Has(checkpoints, last.id)
            /\ Preserved(checkpoints, last.pre.checkpoints)
            /\ Keys(checkpoints) = Keys(last.pre.checkpoints) \ {last.id}
            /\ ~Has(last.pre.checkpoints, last.id) => getState = last.pre)
  /\ []((last.op = "restoreCheckpoint" /\ ~Has(last.pre.checkpoints, last.id))
         => last.err = NotFound /\ getState = last.pre)
  /\ [][\A id \in IssuedIds :
          ~Has(checkpoints, id) => ~Has(checkpoints', id)]_vars

\* a second deleteCheckpoint of a checkpoint that was deleted, another
\* checkpoint being there
C33_Witness ==
  /\ Ok("deleteCheckpoint")
  /\ last.id \in IssuedIds \ {"nope"}
  /\ ~Has(last.pre.checkpoints, last.id)
  /\ ~Has(last.pre.timelines, last.id)
  /\ checkpoints # << >>

\* the timeline n parentId steps up from timeline id of map m; Undefined
\* when a parentId on the way names no timeline of m
RECURSIVE Ancestor(_, _, _)
Ancestor(m, id, n) ==
  IF n = 0
    THEN id
    ELSE IF ~Has(m, id) \/ Get(m, id).parentId = Null
           THEN Undefined
           ELSE Ancestor(m, Get(m, id).parentId, n - 1)

\* C34: every timeline other than main has a parentId that is a key of the
\* timelines map, and following parentId from it reaches main.
C34_TimelineTree ==
  \A i \in DOMAIN timelines :
    timelines[i][1] # MAIN_TIMELINE_ID
      => /\ Has(timelines, timelines[i][2].parentId)
         /\ \E n \in 1..Len(timelines) :
              Ancestor(timelines, timelines[i][1], n) = MAIN_TIMELINE_ID

\* C38: every checkpoint's timelineId is a key of the timelines map.
C38_CheckpointTimelineExists ==
  \A i \in DOMAIN checkpoints : Has(timelines, checkpoints[i][2].timelineId)

\* a timeline with a checkpoint was deleted while another checkpoint stays
C38_Witness ==
  /\ Ok("deleteTimeline")
  /\ \E i \in DOMAIN last.pre.checkpoints :
       last.pre.checkpoints[i][2].timelineId = last.id
  /\ checkpoints # << >>
  /\ Len(checkpoints) < Len(last.pre.checkpoints)

\* ------------------------------------------------- C39: early mutations
\* The statement as made: on a backend that holds a persisted entry and
\* serves the read, a mutating call made before hydration leaves no trace in
\* memory, the state after hydration being the state that was persisted.
C39_AsStated ==
  (/\ last.op = "rehydrate"
   /\ persist.held.kind = "valid" /\ ~persist.readFails
   /\ persist.lastWrite # << >>)
  => getState = deserializeState(persist.held.state)

\* C39: when the backend holds a persisted entry and serves the hydration
\* read before it completes any write of the store, a mutating call made
\* before hydration does not survive: the state in memory after hydration is
\* the persisted state.
C39_EarlyMutationLost ==
  (/\ last.op = "rehydrate"
   /\ persist.held.kind = "valid" /\ ~persist.readFails
   /\ ~persist.early
   /\ persist.lastWrite # << >>)
  => getState = deserializeState(persist.held.state)

\* hydration has replaced a state that a call before it had changed
C39_Witness ==
  /\ last.op = "rehydrate"
  /\ persist.held.kind = "valid" /\ ~persist.readFails
  /\ ~persist.early
  /\ persist.lastWrite # << >>
  /\ last.pre.currentCaptures # createInitialState.currentCaptures
  /\ last.pre.checkpoints = << >>
  /\ getState = PersistedState

\* ------------------------------------------------------ the MSW wrappers
\* requests the wrapped server or worker handles
MaxRequests == 2

\* identifiers generateId() hands out in the specifications of the wrappers
MaxWrapperIds == 2

\* the requestId MSW gives the i-th request
RequestIds == <<"r1", "r2", "r3", "r4">>

\* URLs of the requests, and the exclude option
RequestUrls == {"/a", "/skip"}
exclude == {"/skip"}

\* patterns.some(pattern => url.includes(pattern)); a URL of RequestUrls
\* includes a pattern only when it is that pattern
shouldExclude(url, patterns) == \E pattern \in patterns : url = pattern

\* withMockChainServer / withMockChain with option autoCapture, bound to
\* store object store (0: the one store of the model): requests holds url
\* and lifecycle stage of the requests MSW has started, requestStartTimes
\* and pendingRequests the keys of the two maps, matching the requests whose
\* request:match handler awaits parseBody, parsing the requests whose
\* response:mocked continuation awaits parseBody, mocked the requests in the
\* order of their response:mocked events and captured the ones store.capture
\* was called for, each with the timeline that was current
Wrapper(autoCapture, store) ==
  [on |-> TRUE, autoCapture |-> autoCapture, store |-> store,
   requests |-> << >>, requestStartTimes |-> {}, pendingRequests |-> {},
   matching |-> {}, parsing |-> {}, mocked |-> << >>, captured |-> << >>]

\* the wrapper on the default store of a process that has no other store
InitWrapper ==
  /\ currentTimelineId = createInitialState.currentTimelineId
  /\ timelines = createInitialState.timelines
  /\ checkpoints = createInitialState.checkpoints
  /\ currentCaptures = createInitialState.currentCaptures
  /\ nextId = 1
  /\ last = NoCall
  /\ persist = NoPersistence
  /\ instances = NoInstances
  /\ \E autoCapture \in BOOLEAN : wrapper = Wrapper(autoCapture, 0)

\* the pair the wrapper builds for the i-th request
CapturedPairOf(i) ==
  [id |-> RequestIds[i], method |-> "GET", url |-> wrapper.requests[i].url,
   status |-> 200]

\* MSW starts a request: the request:start handler
request_start(url) ==
  /\ wrapper.on
  /\ wrapper' = [wrapper EXCEPT
        !.requests = Append(@, [url |-> url, stage |-> "start"]),
        !.requestStartTimes =
           IF wrapper.autoCapture /\ ~shouldExclude(url, exclude)
             THEN @ \cup {Len(wrapper.requests) + 1} ELSE @]
  /\ UNCHANGED <<currentTimelineId, timelines, checkpoints, currentCaptures, nextId,
                 last, persist, instances>>

\* the request:match handler of withMockChainServer: synchronous
request_match(i) ==
  /\ wrapper.on /\ wrapper.requests[i].stage = "start"
  /\ wrapper' = [wrapper EXCEPT
        !.requests[i].stage = "match",
        !.pendingRequests =
           IF wrapper.autoCapture /\ ~shouldExclude(wrapper.requests[i].url, exclude)
             THEN @ \cup {i} ELSE @]
  /\ UNCHANGED <<currentTimelineId, timelines, checkpoints, currentCaptures, nextId,
                 last, persist, instances>>

\* a response:mocked handler that leaves the entries of the request in the maps
response_mocked_keep(i) ==
  /\ wrapper.on /\ wrapper.requests[i].stage = "match"
  /\ wrapper' =
       IF wrapper.autoCapture /\ i \in wrapper.pendingRequests
         THEN [wrapper EXCEPT
                 !.requests[i].stage = "mocked",
                 !.parsing = @ \cup {i},
                 !.mocked = Append(@, <<i, currentTimelineId>>)]
         ELSE [wrapper EXCEPT !.requests[i].stage = "mocked"]
  /\ UNCHANGED <<currentTimelineId, timelines, checkpoints, currentCaptures, nextId,
                 last, persist, instances>>

\* the response:mocked handler up to its await: without a pending request
\* it returns, otherwise it deletes the entries of the request and starts
\* to parse the bodies
response_mocked(i) ==
  /\ wrapper.on /\ wrapper.requests[i].stage = "match"
  /\ wrapper' =
       IF wrapper.autoCapture /\ i \in wrapper.pendingRequests
         THEN [wrapper EXCEPT
                 !.requests[i].stage = "mocked",
                 !.pendingRequests = @ \ {i},
                 !.requestStartTimes = @ \ {i},
                 !.parsing = @ \cup {i},
                 !.mocked = Append(@, <<i, currentTimelineId>>)]
         ELSE [wrapper EXCEPT !.requests[i].stage = "mocked"]
  /\ UNCHANGED <<currentTimelineId, timelines, checkpoints, currentCaptures, nextId,
                 last, persist, instances>>

\* the rest of the response:mocked handler, once the bodies are parsed:
\* store.capture(pair)
bodies_parsed(i) ==
  /\ wrapper.on /\ i \in wrapper.parsing
  /\ captureState(CapturedPairOf(i))
  /\ setState_setItem
  /\ wrapper' = [wrapper EXCEPT
        !.parsing = @ \ {i},
        !.captured = Append(@, <<i, currentTimelineId>>)]
  /\ UNCHANGED instances

\* the events of the requests of a wrapped server
NextServer ==
  \/ /\ Len(wrapper.requests) < MaxRequests
     /\ \E url \in RequestUrls : request_start(url)
  \/ \E i \in DOMAIN wrapper.requests : request_match(i)
  \/ \E i \in DOMAIN wrapper.requests : response_mocked(i)
  \/ \E i \in DOMAIN wrapper.requests : bodies_parsed(i)

\* parseBody settles: it catches what the body readers throw
SpecServer ==
  /\ InitWrapper
  /\ [][NextServer]_vars
  /\ \A i \in 1..MaxRequests : WF_vars(bodies_parsed(i))

\* the number of store.capture calls made for request i
Captures(i) == Cardinality({ k \in DOMAIN wrapper.captured : wrapper.captured[k][1] = i })

\* request i is one the wrapper is to capture, and its response was mocked
Completed(i) ==
  /\ i \in DOMAIN wrapper.requests
  /\ wrapper.autoCapture
  /\ ~shouldExclude(wrapper.requests[i].url, exclude)
  /\ wrapper.requests[i].stage = "mocked"

\* C35: with autoCapture on, withMockChainServer calls store.capture exactly
\* once for every request that is not excluded and has emitted request:match
\* and then response:mocked, whatever the order of the events of the other
\* requests, and the request is then in neither map; an excluded request and
\* one whose response was not mocked are never captured.
C35_OneCapturePerRequest ==
  /\ [](wrapper.autoCapture =>
          /\ \A i \in DOMAIN wrapper.requests :
               /\ Captures(i) <= 1
               /\ Captures(i) = 1 =>
                    /\ Completed(i)
                    /\ i \notin wrapper.pendingRequests
                    /\ i \notin wrapper.requestStartTimes
               /\ Completed(i) =>
                    /\ i \notin wrapper.pendingRequests
                    /\ i \notin wrapper.requestStartTimes
          /\ Len(currentCaptures) = Len(wrapper.captured)
          /\ \A k \in DOMAIN wrapper.captured :
               currentCaptures[k] = CapturedPairOf(wrapper.captured[k][1]))
  /\ \A i \in 1..MaxRequests : Completed(i) ~> (Captures(i) = 1)

\* two requests captured, the second one first, and both maps empty
C35_Witness ==
  /\ wrapper.autoCapture
  /\ Len(wrapper.captured) = 2
  /\ wrapper.captured[1][1] = 2
  /\ wrapper.captured[2][1] = 1
  /\ Len(currentCaptures) = 2
  /\ wrapper.pendingRequests = {}
  /\ wrapper.requestStartTimes = {}

\* ------------------------------------------------- C36: the browser wrapper
\* the request:match handler of withMockChain up to its await of parseBody
worker_request_match(i) ==
  /\ wrapper.on /\ wrapper.requests[i].stage = "start"
  /\ wrapper' = [wrapper EXCEPT
        !.requests[i].stage = "match",
        !.matching =
           IF wrapper.autoCapture /\ ~shouldExclude(wrapper.requests[i].url, exclude)
             THEN @ \cup {i} ELSE @]
  /\ UNCHANGED <<currentTimelineId, timelines, checkpoints, currentCaptures, nextId,
                 last, persist, instances>>

\* the rest of the request:match handler, once the request body is parsed:
\* the request is put into __mockchain_pending
worker_request_parsed(i) ==
  /\ wrapper.on /\ i \in wrapper.matching
  /\ wrapper' = [wrapper EXCEPT
        !.matching = @ \ {i},
        !.pendingRequests = @ \cup {i}]
  /\ UNCHANGED <<currentTimelineId, timelines, checkpoints, currentCaptures, nextId,
                 last, persist, instances>>

\* the response:mocked handler of withMockChain up to its await of parseBody:
\* the steps of the one of withMockChainServer
worker_response_mocked(i) == response_mocked(i)

\* the rest of it once the response body is parsed: store.capture(pair)
worker_response_parsed(i) == bodies_parsed(i)

\* the events of the requests of a wrapped worker
NextWorker ==
  \/ /\ Len(wrapper.requests) < MaxRequests
     /\ \E url \in RequestUrls : request_start(url)
  \/ \E i \in DOMAIN wrapper.requests : worker_request_match(i)
  \/ \E i \in DOMAIN wrapper.requests : worker_request_parsed(i)
  \/ \E i \in DOMAIN wrapper.requests : worker_response_mocked(i)
  \/ \E i \in DOMAIN wrapper.requests : worker_response_parsed(i)

\* parseBody settles
SpecWorker ==
  /\ InitWrapper
  /\ [][NextWorker]_vars
  /\ \A i \in 1..MaxRequests :
       WF_vars(worker_request_parsed(i)) /\ WF_vars(worker_response_parsed(i))

\* C36: with autoCapture on, every request that is not excluded and has
\* emitted request:match and then response:mocked is captured once by the
\* browser wrapper (its capture is under way or made), also when
\* response:mocked comes before the request:match handler has registered the
\* request.
C36_OneCapturePerRequest ==
  wrapper.autoCapture =>
    \A i \in DOMAIN wrapper.requests :
      /\ Captures(i) <= 1
      /\ Completed(i) => (i \in wrapper.parsing \/ Captures(i) = 1)

\* ------------------------------------------ C40: captures and store calls
\* the events of a wrapped server, and calls of server.mockchain
NextServerOps ==
  \/ /\ Len(wrapper.requests) < MaxRequests
     /\ \E url \in RequestUrls : request_start(url)
  \/ \E i \in DOMAIN wrapper.requests : request_match(i)
  \/ \E i \in DOMAIN wrapper.requests : response_mocked(i)
  \/ \E i \in DOMAIN wrapper.requests : bodies_parsed(i)
  \/ nextId <= MaxWrapperIds /\ \E options \in CheckpointOptionsSet : createCheckpoint(options)
  \/ \E checkpointId \in CheckpointIds : restoreCheckpoint(checkpointId)
  \/ nextId <= MaxWrapperIds /\
       \E n \in BranchNames, from \in CheckpointIds \cup {Undefined} :
         createBranch([name |-> n, fromCheckpointId |-> from])
  \/ \E timelineId \in TimelineIds : switchTimeline(timelineId)

SpecServerOps == InitWrapper /\ [][NextServerOps]_vars

\* the place of request i in a list of <<request, timeline>> entries
Place(list, i) == CHOOSE k \in DOMAIN list : list[k][1] = i

\* the pairs were captured in the order of the response:mocked events
C40_Order ==
  \A j, k \in DOMAIN wrapper.captured :
    j < k => Place(wrapper.mocked, wrapper.captured[j][1])
               < Place(wrapper.mocked, wrapper.captured[k][1])

\* each pair was captured on the timeline current at its response:mocked event
C40_Timeline ==
  \A k \in DOMAIN wrapper.captured :
    wrapper.captured[k][2]
      = wrapper.mocked[Place(wrapper.mocked, wrapper.captured[k][1])][2]

\* C40: in withMockChainServer the pairs are appended to the live buffer in
\* the order of their response:mocked events, each to the buffer of the
\* timeline that was current at its response:mocked event, whatever store
\* calls are made while the bodies are parsed.
C40_OrderAndTimeline == wrapper.on => (C40_Order /\ C40_Timeline)

\* --------------------------------------------- C37: the store of a wrapper
\* withMockChainServer / withMockChain: const store = getMockChainStore()
withMockChain ==
  /\ instances.on /\ ~wrapper.on
  /\ instances' = defaultStore_orCreate
  /\ wrapper' = Wrapper(TRUE, instances'.got)
  /\ last' = Call("withMockChain", Undefined, None, Undefined)
  /\ UNCHANGED <<currentTimelineId, timelines, checkpoints, currentCaptures, nextId,
                 persist>>

\* mockchain.getStore: () => store
mockchain_getStore ==
  /\ instances.on /\ wrapper.on
  /\ instances' = [instances EXCEPT !.got = wrapper.store]
  /\ last' = Call("getStore", Undefined, None, Undefined)
  /\ UNCHANGED <<currentTimelineId, timelines, checkpoints, currentCaptures, nextId,
                 persist, wrapper>>

\* a wrapper and other collaborators that get the default store, with
\* captures on the store the last of these calls returned
NextWrapperStore ==
  \/ /\ instances.defaultStore = 0 => Len(instances.handles) < MaxInstances
     /\ withMockChain
  \/ mockchain_getStore
  \/ /\ instances.defaultStore = 0 => Len(instances.handles) < MaxInstances
     /\ getMockChainStore
  \/ resetMockChainStore
  \/ instances.got # 0 /\ use(instances.got)
  \/ Len(currentCaptures) < MaxCaptures /\ capture(Pair1)

SpecWrapperStore == InitInstances /\ [][NextWrapperStore]_vars

\* C37: at every moment the store of a wrapper, the one it captures into and
\* mockchain.getStore() returns, is the store getMockChainStore() returns,
\* also after a resetMockChainStore() that followed the creation of the
\* wrapper.
C37_WrapperStoreIsDefault ==
  wrapper.on => defaultStore_orCreate.got = wrapper.store

====
